---------------------------- MODULE Spec2Model ----------------------------
(***************************************************************************)
(* Model of the real-time event-stream engine of the Apex dashboard        *)
(* (src/frontend/static/app.js): the room stream opened by loadDebate and  *)
(* folded into the message feed, the global feed stream of connectFeedWs   *)
(* folded by processFeedEvent, and the loop-status poll of syncLoopStatus.  *)
(*                                                                         *)
(* Strings that the code inspects or concatenates (chunk text, topics) are *)
(* sequences of one-character strings, so that += is \o, slice is SubSeq   *)
(* and includes is a contiguous-subsequence test.                           *)
(***************************************************************************)
EXTENDS Integers, Sequences, FiniteSets, TLC

(***************************************************************************)
(* Bounds of the model.                                                    *)
(***************************************************************************)
\* loadDebate calls in one behaviour of the room stream
MaxLoads == 2
\* frames handled by the room stream's onmessage in one behaviour of SpecRoom
MaxRoomFrames == 3
\* frames handled by the room stream's onmessage in one behaviour of SpecAsm
MaxAsmFrames == 3
\* WebSockets connectFeedWs creates in one behaviour
MaxFeedSockets == 3
\* setInterval calls of startFeedStatusPolling in one behaviour
MaxPollTimers == 3
\* loop_status frames handled in one behaviour of SpecLoop
MaxPushes == 2
\* frames processFeedEvent handles in one behaviour of SpecFeed
MaxFeedFrames == 4
\* the latest time the clock and the frames' timestamps reach
MaxTime == 2
\* room frames handled in SpecNav
MaxNavFrames == 1
\* frames whose payload does not parse
MaxMalformed == 2
\* FEED_MAX_ITEMS, scaled down from the 200 of app.js:764 so that the feed
\* list and the metadata cache overflow within MaxFeedFrames frames
FEED_MAX_ITEMS == 3

Rooms == {1, 2}

VARIABLES
  \* ---- router
  currentPage,
  \* ---- room stream (loadDebate)
  activeDebateId,     \* let activeDebateId: a room id, 0 for null
  activeDebateWs,     \* let activeDebateWs: index into roomWs, 0 for null
  roomWs,             \* every WebSocket loadDebate created, in creation order
  loadCalls,          \* every loadDebate call: its id, whether its fetch is pending,
                      \*   and (history) how many sockets existed when it was made
  wsText,             \* #ws-status-text
  feed,               \* children of #message-feed, in document order
  lastChunkAgent,     \* let lastChunkAgent: a key, or NoKey for null
  lastChunkBubble,    \* let lastChunkBubble: 0 null, k > 0 the k-th child of feed,
                      \*   -1 a node no longer in the document
  detachedText,       \* text of the node lastChunkBubble points to when it is -1
  verdictPanel,       \* #verdict-panel / #verdict-display
  roomLog,            \* history: the frames onmessage handled, in delivery order
  \* ---- global feed stream (connectFeedWs)
  feedWs,             \* let feedWs: index into feedSockets, 0 for null
  feedSockets,        \* every WebSocket connectFeedWs created: readyState, whether
                      \*   onclose is still attached, close events dispatched
  feedReconnectTimer, \* let feedReconnectTimer: index into feedTimers, 0 for null
  feedTimers,         \* every setTimeout of onclose: "pending", "fired" or "cleared"
  feedWsText,         \* #feed-ws-text
  \* ---- status poll (syncLoopStatus)
  feedStatusPollTimer,    \* let feedStatusPollTimer: index into pollIntervals, 0 for null
  pollIntervals,          \* every setInterval of startFeedStatusPolling: TRUE while active
  feedStatusPollInFlight, \* let feedStatusPollInFlight
  poll,               \* the GET /api/loop/status of syncLoopStatus: its phase, the
                      \*   snapshot the backend answered with, and (history) whether a
                      \*   loop_status push was handled since the backend answered
  \* ---- loop state shown
  loopBar,            \* #loop-status-label, #loop-status-topic, #loop-toggle-btn
  feedLoopRunning,    \* let feedLoopRunning
  feedBanner,         \* #feed-banner, #feed-banner-topic
  lastLoopContext,    \* let lastLoopContext
  \* ---- feed reducer (processFeedEvent)
  feedItems,          \* let feedItems
  feedDebateMeta,     \* const feedDebateMeta: the Map's entries in insertion order
  now,                \* the clock new Date() reads
  feedMsg,            \* history: the frame processFeedEvent handled last
  feedSeen,           \* history: how many frames processFeedEvent handled
  feedRedelivered,    \* history: the frame handled last was the one handled before it
  metaOrder,          \* history: the room ids feedDebateMeta holds, in the order in
                      \*   which rememberDebateMeta first saw each of them
  \* ---- message handlers
  errors,             \* history: frames whose parse failure was caught (dropped)
                      \* and exceptions that left a message handler (escaped)
  \* ---- loop toggle (window.toggleLoop)
  feedToggleBusy,     \* let feedToggleBusy
  toggle              \* the toggleLoop call in flight: where it waits (phase), its
                      \*   previousLabel (prev), whether the loop was running when
                      \*   asked (running), and as history the calls made (clicks),
                      \*   the requests sent (requests) and how the last call ended

roomVars == <<activeDebateId, activeDebateWs, roomWs, loadCalls, wsText, feed,
              lastChunkAgent, lastChunkBubble, detachedText, verdictPanel, roomLog>>

feedWsVars == <<feedWs, feedSockets, feedReconnectTimer, feedTimers, feedWsText>>

pollVars == <<feedStatusPollTimer, pollIntervals, feedStatusPollInFlight, poll>>

loopVars == <<loopBar, feedLoopRunning, feedBanner, lastLoopContext>>

reducerVars == <<feedItems, feedDebateMeta, now, feedMsg, feedSeen, feedRedelivered,
                 metaOrder>>

toggleVars == <<feedToggleBusy, toggle>>

vars == <<currentPage, roomVars, feedWsVars, pollVars, loopVars, reducerVars, errors, toggleVars>>

Null == "null"

\* no frame failed to parse yet
NoErrors == [dropped |-> 0, escaped |-> 0]

(***************************************************************************)
(* Small helpers on sequences.                                             *)
(***************************************************************************)
Indices(s) == 1..Len(s)

Last(s) == s[Len(s)]

UpperCase == <<"A", "B", "C", "D", "E", "F", "G", "H", "I", "J", "K", "L", "M", "N", "O", "P", "Q", "R", "S", "T", "U", "V", "W", "X", "Y", "Z">>

LowerCase == <<"a", "b", "c", "d", "e", "f", "g", "h", "i", "j", "k", "l", "m", "n", "o", "p", "q", "r", "s", "t", "u", "v", "w", "x", "y", "z">>

\* String.prototype.toLowerCase on one character
LowerChar(c) ==
  IF \E i \in 1..Len(UpperCase) : UpperCase[i] = c
  THEN LowerCase[CHOOSE i \in 1..Len(UpperCase) : UpperCase[i] = c]
  ELSE c

ToLowerCase(s) == [i \in Indices(s) |-> LowerChar(s[i])]

(***************************************************************************)
(* Room stream: the message feed.                                          *)
(***************************************************************************)
\* A child of #message-feed. conn is the connection (index into roomWs) whose
\* frame created the child, 0 for the loader and the placeholder.
Entry(kind, conn, agent, round, text) ==
  [kind |-> kind, conn |-> conn, agent |-> agent, round |-> round, text |-> text]

Loader == Entry("loader", 0, <<>>, 0, <<>>)

Placeholder == Entry("placeholder", 0, <<>>, 0, <<>>)

\* The text of the node lastChunkBubble points to.
PointerText ==
  IF lastChunkBubble > 0 THEN feed[lastChunkBubble].text ELSE detachedText

\* const loader = feed.querySelector('.loading-row'); if (loader) loader.remove();
FirstLoader(f) ==
  IF \E i \in Indices(f) : f[i].kind = "loader"
  THEN CHOOSE i \in Indices(f) :
         /\ f[i].kind = "loader"
         /\ \A j \in 1..(i - 1) : f[j].kind # "loader"
  ELSE 0

RemoveLoader(f) ==
  LET k == FirstLoader(f)
  IN IF k = 0 THEN f ELSE SubSeq(f, 1, k - 1) \o SubSeq(f, k + 1, Len(f))

\* the index of child p once the loader is removed
ShiftPointer(f, p) ==
  IF p > 0 /\ FirstLoader(f) # 0 /\ FirstLoader(f) < p THEN p - 1 ELSE p

\* const key = `${agent}-${msg.round}` with agent = (msg.agent || '').toLowerCase()
ChunkKey(msg) == <<ToLowerCase(msg.agent), msg.round>>

\* lastChunkAgent = null: no key equals it
NoKey == <<<<>>, -1>>


(***************************************************************************)
(* The message assembler, as a fold over the state                         *)
(*   [feed, agent (lastChunkAgent), bubble (lastChunkBubble), detached].   *)
(***************************************************************************)
AsmState(f, a, b, d) == [feed |-> f, agent |-> a, bubble |-> b, detached |-> d]

\* faulty variant of appendMessage: the open chunk bubble is closed
appendMessage_closes(a, conn, msg) ==
  AsmState(Append(RemoveLoader(a.feed),
                  Entry("msg", conn, msg.agent, msg.round, msg.content)),
           NoKey, 0, <<>>)

\* function appendMessage(feed, msg)
appendMessage(a, conn, msg) ==
  AsmState(Append(RemoveLoader(a.feed),
                  Entry("msg", conn, msg.agent, msg.round, msg.content)),
           a.agent, ShiftPointer(a.feed, a.bubble), a.detached)

\* faulty variant of needsNewBubble: the key comparison is forgotten
needsNewBubble_noKey(agentKey, key, bubble) == bubble = 0

\* if (lastChunkAgent !== key || !lastChunkBubble)
needsNewBubble(agentKey, key, bubble) == agentKey # key \/ bubble = 0

\* faulty variant of appendChunk: the chunk replaces the text of the bubble
appendChunk_overwrites(a, conn, msg) ==
  LET f1  == RemoveLoader(a.feed)
      p1  == ShiftPointer(a.feed, a.bubble)
      key == ChunkKey(msg)
      new == needsNewBubble(a.agent, key, p1)
      f2  == IF new THEN Append(f1, Entry("chunk", conn, msg.agent, msg.round, <<>>))
                    ELSE f1
      p2  == IF new THEN Len(f2) ELSE p1
  IN IF p2 > 0
     THEN AsmState([f2 EXCEPT ![p2].text = msg.content], key, p2, <<>>)
     ELSE AsmState(f2, key, p2, msg.content)

\* function appendChunk(feed, msg)
appendChunk(a, conn, msg) ==
  LET f1  == RemoveLoader(a.feed)
      p1  == ShiftPointer(a.feed, a.bubble)
      key == ChunkKey(msg)
      new == needsNewBubble(a.agent, key, p1)
      f2  == IF new THEN Append(f1, Entry("chunk", conn, msg.agent, msg.round, <<>>))
                    ELSE f1
      p2  == IF new THEN Len(f2) ELSE p1
  IN IF p2 > 0
     THEN AsmState([f2 EXCEPT ![p2].text = @ \o msg.content], key, p2, <<>>)
     ELSE AsmState(f2, key, p2, a.detached \o msg.content)

\* faulty variant of appendDivider: lastChunkAgent and lastChunkBubble are kept
appendDivider_keepsPointer(a, conn, label) ==
  [a EXCEPT !.feed = Append(@, Entry("divider", conn, <<>>, 0, label))]

\* function appendDivider(feed, label)
appendDivider(a, conn, label) ==
  AsmState(Append(a.feed, Entry("divider", conn, <<>>, 0, label)), NoKey, 0, <<>>)

\* feed.innerHTML = '' (debate_start) or the loader / placeholder markup: every
\* child leaves the document; a node lastChunkBubble references lives on, detached.
setInnerHTML(a, children) ==
  AsmState(children, a.agent,
           IF a.bubble = 0 THEN 0 ELSE -1,
           IF a.bubble = 0 THEN <<>>
           ELSE IF a.bubble > 0 THEN a.feed[a.bubble].text ELSE a.detached)

\* faulty variant of clearFeed: the transcript is kept
clearFeed_kept(a) == a

\* feed.innerHTML = '' of the debate_start branch
clearFeed(a) == setInnerHTML(a, <<>>)

StartLabel == <<"S">>

EndLabel == <<"E">>

\* if (msg.content) { ... el.className = 'message-bubble system' ... feed.appendChild(el) }
appendSummary(a, conn, msg) ==
  IF msg.content # <<>>
  THEN [a EXCEPT !.feed = Append(@, Entry("summary", conn, <<>>, 0, msg.content))]
  ELSE a

\* faulty variant of roomApply: a ping is shown like a complete message
roomApply_pingShown(a, conn, msg) ==
  CASE msg.type \in {"ping", "historical", "agent_done"} -> appendMessage(a, conn, msg)
    [] msg.type = "agent_chunk" -> appendChunk(a, conn, msg)
    [] msg.type = "round_start" -> appendDivider(a, conn, msg.content)
    [] msg.type = "debate_start" ->
         appendDivider(clearFeed(a), conn, StartLabel)
    [] msg.type = "debate_end" ->
         appendSummary(appendDivider(a, conn, EndLabel), conn, msg)
    [] OTHER -> a

\* ws.onmessage of loadDebate, after JSON.parse: the message feed
roomApply(a, conn, msg) ==
  CASE msg.type = "ping" -> a
    [] msg.type \in {"historical", "agent_done"} -> appendMessage(a, conn, msg)
    [] msg.type = "agent_chunk" -> appendChunk(a, conn, msg)
    [] msg.type = "round_start" -> appendDivider(a, conn, msg.content)
    [] msg.type = "debate_start" ->
         appendDivider(clearFeed(a), conn, StartLabel)
    [] msg.type = "debate_end" ->
         appendSummary(appendDivider(a, conn, EndLabel), conn, msg)
    [] OTHER -> a

\* ws.onmessage of loadDebate: the verdict panel (debate_end with a verdict)
HiddenPanel == [shown |-> FALSE, verdict |-> "", confidence |-> 0]

roomVerdict(panel, msg) ==
  IF msg.type = "debate_end" /\ msg.verdict # ""
  THEN [shown |-> TRUE, verdict |-> msg.verdict, confidence |-> msg.vc]
  ELSE panel

(***************************************************************************)
(* Frames of the room stream.                                              *)
(***************************************************************************)
RoomFrame(type, agent, round, content, verdict, vc) ==
  [type |-> type, agent |-> agent, round |-> round, content |-> content,
   verdict |-> verdict, vc |-> vc]

ChunkFrames ==
  { RoomFrame("agent_chunk", <<"A">>, 1, <<"x">>, "", 0),
    RoomFrame("agent_chunk", <<"A">>, 1, <<"y">>, "", 0),
    RoomFrame("agent_chunk", <<"a">>, 1, <<"z">>, "", 0),
    RoomFrame("agent_chunk", <<"B">>, 1, <<"x">>, "", 0),
    RoomFrame("agent_chunk", <<"A">>, 2, <<"x">>, "", 0) }

RoomFrames ==
  ChunkFrames \cup
  { RoomFrame("ping", <<>>, 0, <<>>, "", 0),
    RoomFrame("historical", <<"A">>, 1, <<"h">>, "", 0),
    RoomFrame("agent_done", <<"A">>, 1, <<"d">>, "", 0),
    RoomFrame("round_start", <<>>, 0, <<"R">>, "", 0),
    RoomFrame("debate_start", <<>>, 0, <<"T">>, "", 0),
    RoomFrame("debate_end", <<>>, 0, <<>>, "", 0),
    RoomFrame("debate_end", <<>>, 0, <<"s">>, "pass", 82) }

\* the frames of SpecRoom, where connections come and go
CoarseRoomFrames ==
  { RoomFrame("agent_chunk", <<"A">>, 1, <<"x">>, "", 0),
    RoomFrame("debate_start", <<>>, 0, <<"T">>, "", 0),
    RoomFrame("debate_end", <<>>, 0, <<"s">>, "pass", 82) }

(***************************************************************************)
(* Room stream: connection handling.                                       *)
(***************************************************************************)
Alive(ws) == ws.readyState \in {"CONNECTING", "OPEN"}

\* faulty variant of closeActive: the previous socket is left as it is
closeActive_skipped(sockets, active) == sockets

\* if (activeDebateWs) { activeDebateWs.close(); activeDebateWs = null; }
\* close() moves a connecting or open socket to CLOSING; its handlers stay attached.
closeActive(sockets, active) ==
  IF active # 0 /\ Alive(sockets[active])
  THEN [sockets EXCEPT ![active].readyState = "CLOSING"]
  ELSE sockets

AsmNow == AsmState(feed, lastChunkAgent, lastChunkBubble, detachedText)

SetAsm(a) ==
  /\ feed' = a.feed
  /\ lastChunkAgent' = a.agent
  /\ lastChunkBubble' = a.bubble
  /\ detachedText' = a.detached

\* window.viewDebate(id): navigate('live') (pages.live shows the placeholder while
\* no debate was ever selected) and loadDebate(id) up to its await.
ViewDebate(id) ==
  /\ Len(loadCalls) < MaxLoads
  /\ currentPage' = "live"
  /\ activeDebateId' = id
  /\ SetAsm(setInnerHTML(
       IF activeDebateId = 0 THEN setInnerHTML(AsmNow, <<Placeholder>>) ELSE AsmNow,
       <<Loader>>))
  /\ loadCalls' = Append(loadCalls,
                         [id |-> id, pending |-> TRUE, seen |-> Len(roomWs)])
  /\ UNCHANGED <<activeDebateWs, roomWs, wsText, verdictPanel, roomLog>>
  /\ UNCHANGED <<feedWsVars, pollVars, loopVars, reducerVars>>
  /\ UNCHANGED <<errors, toggleVars>>

\* loadDebate(id) from the completion of `await get(...)` (ok) or its catch (~ok)
\* to the end: tear down the previous socket, create the new one.
LoadDebateResume(c, ok) ==
  /\ c \in Indices(loadCalls)
  /\ loadCalls[c].pending
  /\ loadCalls' = [loadCalls EXCEPT ![c].pending = FALSE]
  /\ verdictPanel' = IF ok THEN HiddenPanel ELSE verdictPanel
  /\ roomWs' = Append(closeActive(roomWs, activeDebateWs),
                      [room |-> loadCalls[c].id, readyState |-> "CONNECTING"])
  /\ activeDebateWs' = Len(roomWs) + 1
  /\ UNCHANGED <<currentPage, activeDebateId, wsText, feed, lastChunkAgent,
                 lastChunkBubble, detachedText, roomLog>>
  /\ UNCHANGED <<feedWsVars, pollVars, loopVars, reducerVars>>
  /\ UNCHANGED <<errors, toggleVars>>

\* ws.onopen of loadDebate
RoomWsOpen(w) ==
  /\ w \in Indices(roomWs)
  /\ roomWs[w].readyState = "CONNECTING"
  /\ roomWs' = [roomWs EXCEPT ![w].readyState = "OPEN"]
  /\ wsText' = "Connected"
  /\ UNCHANGED <<currentPage, activeDebateId, activeDebateWs, loadCalls, feed,
                 lastChunkAgent, lastChunkBubble, detachedText, verdictPanel, roomLog>>
  /\ UNCHANGED <<feedWsVars, pollVars, loopVars, reducerVars>>
  /\ UNCHANGED <<errors, toggleVars>>

\* ws.onclose of loadDebate: the close event of a socket the transport dropped
\* or of one whose close() handshake has finished.
RoomWsClose(w) ==
  /\ w \in Indices(roomWs)
  /\ roomWs[w].readyState # "CLOSED"
  /\ roomWs' = [roomWs EXCEPT ![w].readyState = "CLOSED"]
  /\ wsText' = "Disconnected"
  /\ UNCHANGED <<currentPage, activeDebateId, activeDebateWs, loadCalls, feed,
                 lastChunkAgent, lastChunkBubble, detachedText, verdictPanel, roomLog>>
  /\ UNCHANGED <<feedWsVars, pollVars, loopVars, reducerVars>>
  /\ UNCHANGED <<errors, toggleVars>>

\* ws.onmessage of loadDebate. A message event is only dispatched while the
\* socket is OPEN.
RoomOnMessage(w, msg) ==
  /\ w \in Indices(roomWs)
  /\ roomWs[w].readyState = "OPEN"
  /\ SetAsm(roomApply(AsmNow, w, msg))
  /\ verdictPanel' = roomVerdict(verdictPanel, msg)
  /\ roomLog' = Append(roomLog, msg)
  /\ UNCHANGED <<currentPage, activeDebateId, activeDebateWs, roomWs, loadCalls, wsText>>
  /\ UNCHANGED <<feedWsVars, pollVars, loopVars, reducerVars>>
  /\ UNCHANGED <<errors, toggleVars>>

\* ws.onmessage of loadDebate with a payload that is not JSON: JSON.parse
\* throws on the handler's first line, outside any try, and the exception
\* leaves the handler
RoomOnMalformed(w) ==
  /\ w \in Indices(roomWs)
  /\ roomWs[w].readyState = "OPEN"
  /\ errors' = [errors EXCEPT !.escaped = @ + 1]
  /\ UNCHANGED toggleVars
  /\ UNCHANGED <<currentPage, roomVars, feedWsVars, pollVars, loopVars, reducerVars>>

(***************************************************************************)
(* Topics and categories.                                                  *)
(***************************************************************************)
Min(a, b) == IF a < b THEN a ELSE b

\* String.prototype.slice(0, n)
Slice(s, n) == SubSeq(s, 1, Min(n, Len(s)))

\* String.prototype.includes
Includes(s, t) ==
  \E i \in 0..(Len(s) - Len(t)) : SubSeq(s, i + 1, i + Len(t)) = t

\* String.prototype.startsWith
StartsWith(s, t) == Len(t) <= Len(s) /\ SubSeq(s, 1, Len(t)) = t

WhiteSpace == {" ", "\t"}

\* .replace(/\s+/g, ' '): every run of white space becomes one space
CollapseSpace(s) ==
  LET marked == [i \in Indices(s) |->
                   [char |-> IF s[i] \in WhiteSpace THEN " " ELSE s[i],
                    kept |-> ~(s[i] \in WhiteSpace /\ i < Len(s)
                               /\ s[i + 1] \in WhiteSpace)]]
      kept == SelectSeq(marked, LAMBDA m : m.kept)
  IN [i \in Indices(kept) |-> kept[i].char]

\* String.prototype.trim
TrimLeft(s) ==
  IF \A i \in Indices(s) : s[i] \in WhiteSpace THEN <<>>
  ELSE SubSeq(s, CHOOSE i \in Indices(s) :
                   /\ s[i] \notin WhiteSpace
                   /\ \A j \in 1..(i - 1) : s[j] \in WhiteSpace,
              Len(s))

TrimRight(s) ==
  IF \A i \in Indices(s) : s[i] \in WhiteSpace THEN <<>>
  ELSE SubSeq(s, 1, CHOOSE i \in Indices(s) :
                      /\ s[i] \notin WhiteSpace
                      /\ \A j \in (i + 1)..Len(s) : s[j] \in WhiteSpace)

Trim(s) == TrimRight(TrimLeft(s))

\* function normalizedTopic(topic); a missing topic is <<>>
normalizedTopic(topic) == ToLowerCase(Trim(CollapseSpace(topic)))

TopicPrefixLen == 80

\* function topicsMatch(a, b)
topicsMatch(a, b) ==
  LET na == normalizedTopic(a)
      nb == normalizedTopic(b)
  IN IF na = <<>> \/ nb = <<>> THEN FALSE
     ELSE \/ na = nb
          \/ Includes(na, Slice(nb, TopicPrefixLen))
          \/ Includes(nb, Slice(na, TopicPrefixLen))

BreakingPrefix == <<"b", "r", "e", "a", "k", "i", "n", "g", ":">>

ConspiracyKeywords ==
  { <<"c", "o", "n", "s", "p", "i", "r", "a", "c", "y">>,
    <<"s", "a", "n", "d", "b", "a", "g">>,
    <<"i", "l", "l", "e", "g", "a", "l">>,
    <<"l", "o", "o", "p", "h", "o", "l", "e">> }

TechnicalKeywords ==
  { <<"t", "e", "c", "h", "n", "i", "c", "a", "l">>,
    <<"a", "e", "r", "o">>,
    <<"d", "o", "w", "n", "f", "o", "r", "c", "e">>,
    <<"d", "r", "s">>,
    <<"s", "u", "s", "p", "e", "n", "s", "i", "o", "n">>,
    <<"p", "o", "w", "e", "r", " ", "u", "n", "i", "t">> }

StrategyKeywords ==
  { <<"s", "t", "r", "a", "t", "e", "g", "y">>,
    <<"u", "n", "d", "e", "r", "c", "u", "t">>,
    <<"p", "i", "t">>,
    <<"s", "a", "f", "e", "t", "y", " ", "c", "a", "r">> }

PredictionKeywords ==
  { <<"p", "r", "e", "d", "i", "c", "t">>,
    <<"c", "h", "a", "m", "p", "i", "o", "n", "s", "h", "i", "p">>,
    <<"w", "h", "o", " ", "w", "i", "n", "s">>,
    <<"w", "i", "l", "l", " ">> }

HistoricalKeywords ==
  { <<"h", "i", "s", "t", "o", "r", "i", "c", "a", "l">>,
    <<"c", "o", "m", "p", "a", "r", "e">>,
    <<"e", "r", "a">> }

IncludesAny(t, words) == \E w \in words : Includes(t, w)

\* faulty variant of inferFeedCategory: strategy is looked for before technical
inferFeedCategory_strategyFirst(topic, fallback) ==
  LET t == normalizedTopic(topic)
  IN IF t = <<>> THEN fallback
     ELSE IF StartsWith(t, BreakingPrefix) THEN "breaking"
     ELSE IF IncludesAny(t, ConspiracyKeywords) THEN "conspiracy"
     ELSE IF IncludesAny(t, StrategyKeywords) THEN "strategy"
     ELSE IF IncludesAny(t, TechnicalKeywords) THEN "technical"
     ELSE IF IncludesAny(t, PredictionKeywords) THEN "prediction"
     ELSE IF IncludesAny(t, HistoricalKeywords) THEN "historical"
     ELSE fallback

\* function inferFeedCategory(topic, fallback = 'default')
inferFeedCategory(topic, fallback) ==
  LET t == normalizedTopic(topic)
  IN IF t = <<>> THEN fallback
     ELSE IF StartsWith(t, BreakingPrefix) THEN "breaking"
     ELSE IF IncludesAny(t, ConspiracyKeywords) THEN "conspiracy"
     ELSE IF IncludesAny(t, TechnicalKeywords) THEN "technical"
     ELSE IF IncludesAny(t, StrategyKeywords) THEN "strategy"
     ELSE IF IncludesAny(t, PredictionKeywords) THEN "prediction"
     ELSE IF IncludesAny(t, HistoricalKeywords) THEN "historical"
     ELSE fallback

\* a || b on strings: the empty (or missing) string is falsy
OrElse(a, b) == IF a # <<>> THEN a ELSE b

\* a || b on category names; "" is a missing category
OrElseCat(a, b) == IF a # "" THEN a ELSE b

(***************************************************************************)
(* Loop state shown: the status bar, the banner, the loop context.         *)
(***************************************************************************)
LoopTopicLen == 50

Label(phase, count) == [phase |-> phase, count |-> count]

\* function updateLoopStatusBar(msg): the label, topic and button elements
\* (all three are part of the page header)
updateLoopStatusBar(bar, msg) ==
  LET running == msg.status \in {"debating", "cooldown"}
      shown ==
        CASE msg.status = "debating" ->
               [bar EXCEPT !.label = Label("live", msg.debates_run),
                           !.topic = IF msg.topic # <<>>
                                     THEN Slice(msg.topic, LoopTopicLen) ELSE @]
          [] msg.status = "cooldown" ->
               [bar EXCEPT !.label = Label("cooldown", msg.debates_run),
                           !.topic = <<"Next debate starting soon">>]
          [] msg.status \notin {"debating", "cooldown"} /\ ~msg.running ->
               [bar EXCEPT !.label = Label("paused", 0),
                           !.topic = <<"Loop paused">>]
          [] OTHER -> bar
  IN [shown EXCEPT !.btn = IF running THEN "Pause Agents" ELSE "Resume Agents"]

\* feedLoopRunning = running, at the end of updateLoopStatusBar
loopRunning(msg) == msg.status \in {"debating", "cooldown"}

\* function updateFeedBanner(status, topic)
updateFeedBanner(banner, status, topic) ==
  IF status = "debating" /\ topic # <<>>
  THEN [visible |-> TRUE, topic |-> topic]
  ELSE [banner EXCEPT !.visible = FALSE]

\* lastLoopContext = { topic, category } when the loop is debating a topic
loopContext(ctx, debating, topic, category) ==
  IF debating /\ topic # <<>>
  THEN [topic |-> topic, category |-> category]
  ELSE ctx

\* the part of the state a loop-status update writes
LoopShown(bar, running, banner, ctx) ==
  [bar |-> bar, running |-> running, banner |-> banner, ctx |-> ctx]

LoopNow == LoopShown(loopBar, feedLoopRunning, feedBanner, lastLoopContext)

SetLoop(l) ==
  /\ loopBar' = l.bar
  /\ feedLoopRunning' = l.running
  /\ feedBanner' = l.banner
  /\ lastLoopContext' = l.ctx

\* processFeedEvent(msg), the loop_status branch
pushLoopStatus(l, msg) ==
  LET category == OrElseCat(msg.category, inferFeedCategory(msg.topic, "default"))
  IN LoopShown(updateLoopStatusBar(l.bar, msg),
               loopRunning(msg),
               updateFeedBanner(l.banner, msg.status, msg.topic),
               loopContext(l.ctx, msg.status = "debating", msg.topic, category))

\* the status a snapshot of GET /api/loop/status stands for
snapshotStatus(s) ==
  IF s.running THEN (IF s.current_topic # <<>> THEN "debating" ELSE "cooldown")
  ELSE "paused"

\* syncLoopStatus(), from the completion of `await get(...)` to the end of try
pullLoopStatus(l, s) ==
  LET status == snapshotStatus(s)
      category == OrElseCat(s.current_category,
                            inferFeedCategory(s.current_topic, "default"))
      msg == [status |-> status, running |-> s.running,
              debates_run |-> s.debates_run, topic |-> s.current_topic,
              category |-> category]
  IN LoopShown(updateLoopStatusBar(l.bar, msg),
               loopRunning(msg),
               updateFeedBanner(l.banner, status, s.current_topic),
               loopContext(l.ctx, s.running, s.current_topic, category))

TopicWill == <<"W", "i", "l", "l", " ", "x">>

TopicPit == <<"P", "i", "t">>

Snapshot(running, topic, category, count) ==
  [running |-> running, current_topic |-> topic, current_category |-> category,
   debates_run |-> count]

NoSnapshot == Snapshot(FALSE, <<>>, "", -1)

Snapshots ==
  { Snapshot(FALSE, <<>>, "", 1),
    Snapshot(TRUE, <<>>, "", 1),
    Snapshot(TRUE, TopicPit, "", 1) }

(***************************************************************************)
(* Status poll.                                                            *)
(***************************************************************************)
\* a status pull: where the request is (phase), what the backend answered
\* (resp), and as history whether a push was handled after the answer (pushed),
\* how many requests are outstanding (flying) and how the last one ended
\* (outcome)
Poll(phase, resp, pushed, flying, outcome) ==
  [phase |-> phase, resp |-> resp, pushed |-> pushed, flying |-> flying,
   outcome |-> outcome]

IdlePoll == Poll("idle", NoSnapshot, FALSE, 0, "none")

\* the pull p has ended with the given outcome
EndPoll(p, outcome) == Poll("idle", NoSnapshot, FALSE, p.flying - 1, outcome)

\* faulty variant of syncLoopStatus: no `if (feedStatusPollInFlight) return`
syncLoopStatus_unguarded(p) ==
  [inFlight |-> TRUE, poll |-> Poll("sent", NoSnapshot, FALSE, p.poll.flying + 1, "none")]

\* async function syncLoopStatus(), up to its await: the state
\* [inFlight (feedStatusPollInFlight), poll]
syncLoopStatus(p) ==
  IF p.inFlight THEN p
  ELSE [inFlight |-> TRUE,
        poll |-> Poll("sent", NoSnapshot, FALSE, p.poll.flying + 1, "none")]

PollNow == [inFlight |-> feedStatusPollInFlight, poll |-> poll]

SetPoll(p) ==
  /\ feedStatusPollInFlight' = p.inFlight
  /\ poll' = p.poll

\* faulty variant of startFeedStatusPolling: no clearInterval of the old timer
startFeedStatusPolling_stacked(t) ==
  [timer |-> Len(t.intervals) + 1, intervals |-> Append(t.intervals, TRUE)]

\* faulty variant of startFeedStatusPolling: the handle of the new interval is
\* not stored in feedStatusPollTimer
startFeedStatusPolling_handleLost(t) ==
  LET cleared == IF t.timer # 0 THEN [t.intervals EXCEPT ![t.timer] = FALSE]
                 ELSE t.intervals
  IN [timer |-> t.timer, intervals |-> Append(cleared, TRUE)]

\* function startFeedStatusPolling(): the state [timer, intervals]
startFeedStatusPolling(t) ==
  LET cleared == IF t.timer # 0 THEN [t.intervals EXCEPT ![t.timer] = FALSE]
                 ELSE t.intervals
  IN [timer |-> Len(cleared) + 1, intervals |-> Append(cleared, TRUE)]

\* the backend answers GET /api/loop/status with its state at that moment
PollReply(snap) ==
  /\ poll.phase = "sent"
  /\ poll' = [poll EXCEPT !.phase = "replied", !.resp = snap, !.pushed = FALSE]
  /\ UNCHANGED <<currentPage, roomVars, feedWsVars, loopVars, reducerVars,
                 feedStatusPollTimer, pollIntervals, feedStatusPollInFlight>>
  /\ UNCHANGED <<errors, toggleVars>>

\* syncLoopStatus() resumes with the response: try body, then finally
PollResponse ==
  /\ poll.phase = "replied"
  /\ SetLoop(pullLoopStatus(LoopNow, poll.resp))
  /\ SetPoll([inFlight |-> FALSE, poll |-> EndPoll(poll, "applied")])
  /\ UNCHANGED <<currentPage, roomVars, feedWsVars, reducerVars,
                 feedStatusPollTimer, pollIntervals>>
  /\ UNCHANGED <<errors, toggleVars>>

\* syncLoopStatus() resumes with a rejected fetch: catch, then finally
PollFailure ==
  /\ poll.phase \in {"sent", "replied"}
  /\ SetPoll([inFlight |-> FALSE, poll |-> EndPoll(poll, "failed")])
  /\ UNCHANGED <<currentPage, roomVars, feedWsVars, loopVars, reducerVars,
                 feedStatusPollTimer, pollIntervals>>
  /\ UNCHANGED <<errors, toggleVars>>

\* the interval of startFeedStatusPolling fires
PollTick(t) ==
  /\ t \in Indices(pollIntervals)
  /\ pollIntervals[t]
  /\ SetPoll(syncLoopStatus(PollNow))
  /\ UNCHANGED <<currentPage, roomVars, feedWsVars, loopVars, reducerVars,
                 feedStatusPollTimer, pollIntervals>>
  /\ UNCHANGED <<errors, toggleVars>>

(***************************************************************************)
(* Loop toggle.                                                            *)
(***************************************************************************)
Toggle(phase, prev, running, clicks, requests, outcome) ==
  [phase |-> phase, prev |-> prev, running |-> running, clicks |-> clicks,
   requests |-> requests, outcome |-> outcome]

\* no toggleLoop call was made yet
IdleToggle == Toggle("idle", Null, FALSE, 0, 0, "none")

\* btn.textContent = 'Working...'
Working == "Working"

\* faulty variant of toggleFinally: the busy flag stays set
toggleFinally_stillBusy(busy, bar, prev) ==
  [busy |-> busy,
   bar |-> IF bar.btn = Working THEN [bar EXCEPT !.btn = prev] ELSE bar]

\* the finally block of toggleLoop, before its syncLoopStatus(): the busy flag
\* and the button
toggleFinally(busy, bar, prev) ==
  [busy |-> FALSE,
   bar |-> IF bar.btn = Working THEN [bar EXCEPT !.btn = prev] ELSE bar]

\* window.toggleLoop(), up to `await get('/api/loop/status')`; a call made
\* while feedToggleBusy is set returns at once
ToggleLoop ==
  /\ IF feedToggleBusy
     THEN /\ toggle' = [toggle EXCEPT !.clicks = @ + 1, !.outcome = "ignored"]
          /\ UNCHANGED <<feedToggleBusy, loopBar>>
     ELSE /\ feedToggleBusy' = TRUE
          /\ toggle' = Toggle("status", loopBar.btn, FALSE, toggle.clicks + 1,
                              toggle.requests + 1, "none")
          /\ loopBar' = [loopBar EXCEPT !.btn = Working]
  /\ UNCHANGED <<currentPage, roomVars, feedWsVars, pollVars, reducerVars, errors,
                 feedLoopRunning, feedBanner, lastLoopContext>>

\* toggleLoop resumes with the status: post('/api/loop/stop') when the loop
\* runs, post('/api/loop/start') when it does not
ToggleStatusReply(running) ==
  /\ toggle.phase = "status"
  /\ toggle' = [toggle EXCEPT !.phase = "post", !.running = running,
                              !.requests = @ + 1]
  /\ UNCHANGED <<currentPage, roomVars, feedWsVars, pollVars, loopVars, reducerVars,
                 errors, feedToggleBusy>>

\* toggleLoop resumes with the answer of the post: the rest of the try body,
\* then finally
TogglePostReply(result) ==
  /\ toggle.phase = "post"
  /\ LET l == pullLoopStatus(LoopNow, result)
         f == toggleFinally(feedToggleBusy, l.bar, toggle.prev)
     IN /\ SetLoop([l EXCEPT !.bar = f.bar])
        /\ feedToggleBusy' = f.busy
  /\ toggle' = [toggle EXCEPT !.phase = "idle", !.outcome = "applied"]
  /\ SetPoll(syncLoopStatus(PollNow))
  /\ UNCHANGED <<currentPage, roomVars, feedWsVars, reducerVars, errors,
                 feedStatusPollTimer, pollIntervals>>

\* toggleLoop resumes with a rejected status fetch or a rejected post: catch,
\* then finally
ToggleFailure ==
  /\ toggle.phase \in {"status", "post"}
  /\ LET f == toggleFinally(feedToggleBusy, loopBar, toggle.prev)
     IN /\ loopBar' = f.bar
        /\ feedToggleBusy' = f.busy
  /\ toggle' = [toggle EXCEPT !.phase = "idle", !.outcome = "failed"]
  /\ SetPoll(syncLoopStatus(PollNow))
  /\ UNCHANGED <<currentPage, roomVars, feedWsVars, reducerVars, errors,
                 feedStatusPollTimer, pollIntervals,
                 feedLoopRunning, feedBanner, lastLoopContext>>

(***************************************************************************)
(* Feed reducer.                                                           *)
(***************************************************************************)
\* faulty variant of pushFeedItem: the list is never trimmed
pushFeedItem_unbounded(items, item) == Append(items, item)

\* faulty variant of pushFeedItem: on overflow the newest items are dropped
pushFeedItem_dropsNewest(items, item) ==
  LET pushed == Append(items, item)
  IN IF Len(pushed) > FEED_MAX_ITEMS THEN SubSeq(pushed, 1, FEED_MAX_ITEMS)
     ELSE pushed

\* function pushFeedItem(item)
pushFeedItem(items, item) ==
  LET pushed == Append(items, item)
  IN IF Len(pushed) > FEED_MAX_ITEMS
     THEN SubSeq(pushed, Len(pushed) - FEED_MAX_ITEMS + 1, Len(pushed))
     ELSE pushed

NoMeta == [id |-> 0, topic |-> <<>>, category |-> ""]

HasMeta(meta, id) == \E i \in Indices(meta) : meta[i].id = id

MetaIndex(meta, id) == CHOOSE i \in Indices(meta) : meta[i].id = id

\* feedDebateMeta.get(debateId) || {}
getMeta(meta, id) == IF HasMeta(meta, id) THEN meta[MetaIndex(meta, id)] ELSE NoMeta

\* faulty variant of rememberDebateMeta: the entry is always added as a new one
rememberDebateMeta_added(meta, id, topic, category) ==
  IF id = 0 THEN meta
  ELSE LET existing == getMeta(meta, id)
           entry == [id |-> id,
                     topic |-> OrElse(topic, existing.topic),
                     category |-> OrElseCat(category,
                                            OrElseCat(existing.category, "default"))]
           set == Append(meta, entry)
       IN IF Len(set) > FEED_MAX_ITEMS THEN Tail(set) ELSE set

\* faulty variant of rememberDebateMeta: an update moves the entry to the end
rememberDebateMeta_refreshed(meta, id, topic, category) ==
  IF id = 0 THEN meta
  ELSE LET existing == getMeta(meta, id)
           entry == [id |-> id,
                     topic |-> OrElse(topic, existing.topic),
                     category |-> OrElseCat(category,
                                            OrElseCat(existing.category, "default"))]
           set == Append(SelectSeq(meta, LAMBDA e : e.id # id), entry)
       IN IF Len(set) > FEED_MAX_ITEMS THEN Tail(set) ELSE set

\* function rememberDebateMeta(debateId, topic, category); a missing id is 0
rememberDebateMeta(meta, id, topic, category) ==
  IF id = 0 THEN meta
  ELSE LET existing == getMeta(meta, id)
           entry == [id |-> id,
                     topic |-> OrElse(topic, existing.topic),
                     category |-> OrElseCat(category,
                                            OrElseCat(existing.category, "default"))]
           set == IF HasMeta(meta, id)
                  THEN [meta EXCEPT ![MetaIndex(meta, id)] = entry]
                  ELSE Append(meta, entry)
       IN IF Len(set) > FEED_MAX_ITEMS THEN Tail(set) ELSE set

\* the order in which the ids of the cache were first seen, after a frame of
\* room id left the cache as meta: a new id goes to the end, an id that is no
\* longer cached is forgotten
firstSeenOrder(order, id, meta) ==
  LET seen == IF HasMeta(meta, id) /\ \A k \in Indices(order) : order[k] # id
              THEN Append(order, id) ELSE order
  IN SelectSeq(seen, LAMBDA k : HasMeta(meta, k))

StartedPrefix == "Debate started: "

\* msg.content.replace('Debate started: ', ''): the first occurrence is removed
RemoveStartedPrefix(content) ==
  IF \E i \in Indices(content) : content[i] = StartedPrefix
  THEN LET k == CHOOSE i \in Indices(content) :
                  /\ content[i] = StartedPrefix
                  /\ \A j \in 1..(i - 1) : content[j] # StartedPrefix
       IN SubSeq(content, 1, k - 1) \o SubSeq(content, k + 1, Len(content))
  ELSE content

EndTopicLen == 160

FeedItem(type, id, topic, category, agent, content, verdict, agents, ts) ==
  [type |-> type, debate_id |-> id, topic |-> topic, category |-> category,
   agent |-> agent, content |-> content, verdict |-> verdict, agents |-> agents,
   ts |-> ts]

\* the state [items (feedItems), meta (feedDebateMeta)] of the reducer
Reducer(items, meta) == [items |-> items, meta |-> meta]

\* faulty variant of feedDebateStart: the loop context is not consulted
feedDebateStart_noInherit(r, ctx, msg, ts) ==
  LET topic == OrElse(RemoveStartedPrefix(msg.content), msg.topic)
      category == OrElseCat(msg.category, inferFeedCategory(topic, "default"))
  IN Reducer(pushFeedItem(r.items,
                          FeedItem("debate_start", msg.debate_id, topic, category,
                                   <<"System">>, <<>>, "", {}, ts)),
             rememberDebateMeta(r.meta, msg.debate_id, topic, category))

\* processFeedEvent(msg), the debate_start branch
feedDebateStart(r, ctx, msg, ts) ==
  LET topic == OrElse(RemoveStartedPrefix(msg.content), msg.topic)
      category == OrElseCat(msg.category,
                            IF topicsMatch(topic, ctx.topic) THEN ctx.category
                            ELSE inferFeedCategory(topic, "default"))
  IN Reducer(pushFeedItem(r.items,
                          FeedItem("debate_start", msg.debate_id, topic, category,
                                   <<"System">>, <<>>, "", {}, ts)),
             rememberDebateMeta(r.meta, msg.debate_id, topic, category))

\* processFeedEvent(msg), the agent_done branch (round 3 only)
feedAgentDone(r, msg, ts) ==
  LET meta == getMeta(r.meta, msg.debate_id)
      topic == OrElse(msg.topic, meta.topic)
      category == OrElseCat(msg.category,
                            OrElseCat(meta.category, inferFeedCategory(topic, "default")))
  IN Reducer(pushFeedItem(r.items,
                          FeedItem("agent_done", msg.debate_id, topic, category,
                                   msg.agent, msg.content, "", {}, ts)),
             rememberDebateMeta(r.meta, msg.debate_id, topic, category))

\* faulty variant of findOpenOrVerdict: only a debate_start item is found
findOpenOrVerdict_startOnly(items, id) ==
  IF \E i \in Indices(items) : items[i].debate_id = id /\ items[i].type = "debate_start"
  THEN CHOOSE i \in Indices(items) :
         /\ items[i].debate_id = id /\ items[i].type = "debate_start"
         /\ \A j \in 1..(i - 1) :
              ~(items[j].debate_id = id /\ items[j].type = "debate_start")
  ELSE 0

\* feedItems.findIndex(i => i.debate_id === id &&
\*                          (i.type === 'debate_start' || i.type === 'debate_end'))
\* with 0 for -1
findOpenOrVerdict(items, id) ==
  IF \E i \in Indices(items) :
       items[i].debate_id = id /\ items[i].type \in {"debate_start", "debate_end"}
  THEN CHOOSE i \in Indices(items) :
         /\ items[i].debate_id = id /\ items[i].type \in {"debate_start", "debate_end"}
         /\ \A j \in 1..(i - 1) :
              ~(items[j].debate_id = id /\ items[j].type \in {"debate_start", "debate_end"})
  ELSE 0

\* faulty variant of placeVerdict: the verdict item is always appended
placeVerdict_appended(items, existing, verdictItem) == pushFeedItem(items, verdictItem)

\* if (existing >= 0) feedItems[existing] = verdictItem; else pushFeedItem(verdictItem);
placeVerdict(items, existing, verdictItem) ==
  IF existing > 0 THEN [items EXCEPT ![existing] = verdictItem]
  ELSE pushFeedItem(items, verdictItem)

\* processFeedEvent(msg), the debate_end branch
feedDebateEnd(r, msg, ts) ==
  LET meta == getMeta(r.meta, msg.debate_id)
      topic == OrElse(msg.topic, OrElse(meta.topic, Slice(msg.content, EndTopicLen)))
      category == OrElseCat(msg.category,
                            OrElseCat(meta.category, inferFeedCategory(topic, "default")))
      verdictItem == FeedItem("debate_end", msg.debate_id, topic, category, <<>>,
                              msg.content, msg.verdict, msg.scores, ts)
  IN Reducer(placeVerdict(r.items, findOpenOrVerdict(r.items, msg.debate_id), verdictItem),
             rememberDebateMeta(r.meta, msg.debate_id, topic, category))

\* the values of feedFilter: 'all' or a category
FeedFilters ==
  {"all", "breaking", "conspiracy", "technical", "strategy", "prediction",
   "historical", "default"}

CardTitleLen == 140

\* the card renderFeedItems builds for an item: its category badge and title
FeedCard(item) ==
  [debate_id |-> item.debate_id,
   type |-> item.type,
   cat |-> OrElseCat(item.category, "default"),
   title |-> Slice(OrElse(item.topic, item.content), CardTitleLen)]

\* function renderFeedItems(): the cards of #feed-stream, newest first, for the
\* filter chosen; <<>> stands for the "No agent activity yet" placeholder
renderFeedItems(items, filter) ==
  LET visible == IF filter = "all" THEN items
                 ELSE SelectSeq(items, LAMBDA i : i.category = filter)
  IN [k \in 1..Len(visible) |-> FeedCard(visible[Len(visible) + 1 - k])]

\* faulty variant of feedApply: an agent_done of any round makes an item
feedApply_anyRound(r, ctx, msg, ts) ==
  CASE msg.type = "debate_start" -> feedDebateStart(r, ctx, msg, ts)
    [] msg.type = "agent_done" -> feedAgentDone(r, msg, ts)
    [] msg.type = "debate_end" -> feedDebateEnd(r, msg, ts)
    [] OTHER -> r

\* processFeedEvent(msg): the feed list and the metadata cache
feedApply(r, ctx, msg, ts) ==
  CASE msg.type = "debate_start" -> feedDebateStart(r, ctx, msg, ts)
    [] msg.type = "agent_done" /\ msg.round = 3 -> feedAgentDone(r, msg, ts)
    [] msg.type = "debate_end" -> feedDebateEnd(r, msg, ts)
    [] OTHER -> r

\* processFeedEvent(msg): the loop state shown
loopApply(l, msg) ==
  IF msg.type = "loop_status" THEN pushLoopStatus(l, msg) ELSE l

(***************************************************************************)
(* Frames of the global feed stream. A missing field is <<>>, "", 0 or {}. *)
(***************************************************************************)
FeedFrame(type, id, round, agent, topic, category, content, verdict, scores, timestamp, status, running, count) ==
  [type |-> type, debate_id |-> id, round |-> round, agent |-> agent,
   topic |-> topic, category |-> category, content |-> content,
   verdict |-> verdict, scores |-> scores, timestamp |-> timestamp,
   status |-> status, running |-> running, debates_run |-> count]

LoopFrame(status, running, topic, category, count) ==
  FeedFrame("loop_status", 0, 0, <<>>, topic, category, <<>>, "", {}, 0,
            status, running, count)

LoopFrames ==
  { LoopFrame("debating", TRUE, TopicWill, "", 2),
    LoopFrame("cooldown", TRUE, <<>>, "", 2),
    LoopFrame("idle", FALSE, <<>>, "", 2) }

PingFrame == FeedFrame("ping", 0, 0, <<>>, <<>>, "", <<>>, "", {}, 0, "", FALSE, 0)

NoFrame == FeedFrame("", 0, 0, <<>>, <<>>, "", <<>>, "", {}, 0, "", FALSE, 0)

Times == 1..MaxTime

StartFrames ==
  { FeedFrame("debate_start", id, 0, <<>>, <<>>, "", <<StartedPrefix>> \o TopicWill,
              "", {}, t, "", FALSE, 0) : id \in Rooms, t \in {0, 1} }

DoneFrames ==
  { FeedFrame("agent_done", 1, 3, <<"A">>, <<>>, "", <<"c">>, "", {}, 1, "", FALSE, 0),
    FeedFrame("agent_done", 1, 1, <<"A">>, <<>>, "", <<"c">>, "", {}, 1, "", FALSE, 0) }

EndFrames ==
  { FeedFrame("debate_end", id, 0, <<>>, <<>>, "", <<"s">>, "pass", {"A", "B"}, t,
              "", FALSE, 0) : id \in Rooms, t \in {0, 1} }

FeedFrames ==
  StartFrames \cup DoneFrames \cup EndFrames \cup
  { PingFrame, LoopFrame("debating", TRUE, TopicWill, "", 2) }

(***************************************************************************)
(* Global feed stream: connection handling.                                *)
(***************************************************************************)
\* let feedWsShouldRun = true; never assigned again
feedWsShouldRun == TRUE

\* the state [ws (feedWs), sockets, timer (feedReconnectTimer), timers]
FeedConn(ws, sockets, timer, timers) ==
  [ws |-> ws, sockets |-> sockets, timer |-> timer, timers |-> timers]

FeedConnNow == FeedConn(feedWs, feedSockets, feedReconnectTimer, feedTimers)

SetFeedConn(c) ==
  /\ feedWs' = c.ws
  /\ feedSockets' = c.sockets
  /\ feedReconnectTimer' = c.timer
  /\ feedTimers' = c.timers

NewSocket == [readyState |-> "CONNECTING", onclose |-> TRUE, closes |-> 0]

\* if (feedReconnectTimer) { clearTimeout(feedReconnectTimer); feedReconnectTimer = null; }
clearReconnect(c) ==
  IF c.timer # 0
  THEN [c EXCEPT !.timers[c.timer] = IF @ = "pending" THEN "cleared" ELSE @,
                 !.timer = 0]
  ELSE c

\* if (feedWs) { feedWs.onclose = null; feedWs.close(); feedWs = null; }
dropFeedWs(c) ==
  IF c.ws # 0
  THEN [c EXCEPT !.sockets[c.ws].onclose = FALSE,
                 !.sockets[c.ws].readyState =
                    IF @ \in {"CONNECTING", "OPEN"} THEN "CLOSING" ELSE @,
                 !.ws = 0]
  ELSE c

\* function connectFeedWs(force = false)
connectFeedWs(c, force) ==
  IF ~force /\ c.ws # 0 /\ Alive(c.sockets[c.ws]) THEN c
  ELSE LET d == dropFeedWs(clearReconnect(c))
       IN [d EXCEPT !.sockets = Append(@, NewSocket), !.ws = Len(d.sockets) + 1]

\* connectFeedWs would create a socket beyond the model's bound
FeedSocketsExhausted(c) ==
  /\ ~(c.ws # 0 /\ Alive(c.sockets[c.ws]))
  /\ Len(c.sockets) >= MaxFeedSockets

\* ws.onopen of connectFeedWs
FeedWsOpen(w) ==
  /\ w \in Indices(feedSockets)
  /\ feedSockets[w].readyState = "CONNECTING"
  /\ feedSockets' = [feedSockets EXCEPT ![w].readyState = "OPEN"]
  /\ IF feedWs # w
     THEN UNCHANGED <<feedWsText, feedStatusPollInFlight, poll>>
     ELSE /\ feedWsText' = "Connected"
          /\ SetPoll(syncLoopStatus(PollNow))
  /\ UNCHANGED <<currentPage, roomVars, loopVars, reducerVars, feedWs,
                 feedReconnectTimer, feedTimers, feedStatusPollTimer, pollIntervals>>
  /\ UNCHANGED <<errors, toggleVars>>

\* faulty variant of onFeedClose: no `if (feedWs !== ws) return`
onFeedClose_unguarded(c, w) ==
  [c EXCEPT !.ws = 0, !.timers = Append(@, "pending"), !.timer = Len(c.timers) + 1]

\* faulty variant of onFeedClose: no reconnect is scheduled
onFeedClose_unscheduled(c, w) == IF c.ws # w THEN c ELSE [c EXCEPT !.ws = 0]

\* ws.onclose of connectFeedWs, on the state c
onFeedClose(c, w) ==
  IF c.ws # w THEN c
  ELSE IF feedWsShouldRun
       THEN [c EXCEPT !.ws = 0,
                      !.timers = Append(@, "pending"),
                      !.timer = Len(c.timers) + 1]
       ELSE [c EXCEPT !.ws = 0]

\* the close event of a feed socket: the transport dropped it, or its close()
\* handshake finished. onclose runs when it is still attached.
FeedWsClose(w) ==
  /\ w \in Indices(feedSockets)
  /\ feedSockets[w].readyState # "CLOSED"
  /\ LET c == [FeedConnNow EXCEPT !.sockets[w].readyState = "CLOSED",
                                  !.sockets[w].closes = 1]
     IN IF feedSockets[w].onclose
        THEN /\ SetFeedConn(onFeedClose(c, w))
             /\ feedWsText' = IF feedWs = w THEN "Reconnecting" ELSE feedWsText
        ELSE /\ SetFeedConn(c)
             /\ UNCHANGED feedWsText
  /\ UNCHANGED <<currentPage, roomVars, pollVars, loopVars, reducerVars>>
  /\ UNCHANGED <<errors, toggleVars>>

\* a second close event reaches the onclose handler of a closed socket
FeedWsCloseAgain(w) ==
  /\ w \in Indices(feedSockets)
  /\ feedSockets[w].readyState = "CLOSED"
  /\ feedSockets[w].onclose
  /\ feedSockets[w].closes = 1
  /\ SetFeedConn(onFeedClose([FeedConnNow EXCEPT !.sockets[w].closes = 2], w))
  /\ feedWsText' = IF feedWs = w THEN "Reconnecting" ELSE feedWsText
  /\ UNCHANGED <<currentPage, roomVars, pollVars, loopVars, reducerVars>>
  /\ UNCHANGED <<errors, toggleVars>>

\* ws.onerror of connectFeedWs: try { ws.close(); } catch (_) {}
FeedWsError(w) ==
  /\ w \in Indices(feedSockets)
  /\ Alive(feedSockets[w])
  /\ feedSockets' = [feedSockets EXCEPT ![w].readyState = "CLOSING"]
  /\ UNCHANGED <<currentPage, roomVars, pollVars, loopVars, reducerVars, feedWs,
                 feedReconnectTimer, feedTimers, feedWsText>>
  /\ UNCHANGED <<errors, toggleVars>>

\* the timeout set by onclose fires: connectFeedWs()
ReconnectFire(t) ==
  /\ t \in Indices(feedTimers)
  /\ feedTimers[t] = "pending"
  /\ ~FeedSocketsExhausted(FeedConnNow)
  /\ SetFeedConn(connectFeedWs([FeedConnNow EXCEPT !.timers[t] = "fired"], FALSE))
  /\ UNCHANGED <<currentPage, roomVars, pollVars, loopVars, reducerVars, feedWsText>>
  /\ UNCHANGED <<errors, toggleVars>>

\* ws.onmessage of connectFeedWs: processFeedEvent(JSON.parse(e.data)) at time t.
\* const ts = msg.timestamp || new Date().toISOString()
FeedOnMessage(w, msg, t) ==
  /\ w \in Indices(feedSockets)
  /\ feedSockets[w].readyState = "OPEN"
  /\ t >= now
  /\ now' = t
  /\ LET ts == IF msg.timestamp # 0 THEN msg.timestamp ELSE t
         r == feedApply(Reducer(feedItems, feedDebateMeta), lastLoopContext, msg, ts)
     IN /\ feedItems' = r.items
        /\ feedDebateMeta' = r.meta
        /\ metaOrder' = firstSeenOrder(metaOrder, msg.debate_id, r.meta)
  /\ SetLoop(loopApply(LoopNow, msg))
  /\ poll' = IF msg.type = "loop_status" /\ poll.phase = "replied"
             THEN [poll EXCEPT !.pushed = TRUE] ELSE poll
  /\ feedMsg' = msg
  /\ feedSeen' = feedSeen + 1
  /\ feedRedelivered' = (msg = feedMsg)
  /\ UNCHANGED <<currentPage, roomVars, feedWsVars, feedStatusPollTimer,
                 pollIntervals, feedStatusPollInFlight>>
  /\ UNCHANGED <<errors, toggleVars>>

\* ws.onmessage of connectFeedWs with a payload that is not JSON: JSON.parse
\* throws inside the try, the catch swallows it
FeedOnMalformed(w) ==
  /\ w \in Indices(feedSockets)
  /\ feedSockets[w].readyState = "OPEN"
  /\ errors' = [errors EXCEPT !.dropped = @ + 1]
  /\ UNCHANGED toggleVars
  /\ UNCHANGED <<currentPage, roomVars, feedWsVars, pollVars, loopVars, reducerVars>>

(***************************************************************************)
(* Router.                                                                 *)
(***************************************************************************)
\* pages without a part in the stream engine are represented by "home"
Pages == {"home", "feed", "live"}

\* function navigate(page), with pages.feed and pages.live
Navigate(page) ==
  /\ currentPage' = page
  /\ IF page = "feed"
     THEN /\ ~FeedSocketsExhausted(FeedConnNow)
          /\ Len(pollIntervals) < MaxPollTimers
          /\ SetFeedConn(connectFeedWs(FeedConnNow, FALSE))
          /\ SetPoll(syncLoopStatus(PollNow))
          /\ LET t == startFeedStatusPolling(
                        [timer |-> feedStatusPollTimer, intervals |-> pollIntervals])
             IN /\ feedStatusPollTimer' = t.timer
                /\ pollIntervals' = t.intervals
     ELSE UNCHANGED <<feedWs, feedSockets, feedReconnectTimer, feedTimers, pollVars>>
  /\ IF page = "live" /\ activeDebateId = 0
     THEN SetAsm(setInnerHTML(AsmNow, <<Placeholder>>))
     ELSE UNCHANGED <<feed, lastChunkAgent, lastChunkBubble, detachedText>>
  /\ UNCHANGED <<activeDebateId, activeDebateWs, roomWs, loadCalls, wsText,
                 verdictPanel, roomLog, feedWsText, loopVars, reducerVars>>
  /\ UNCHANGED <<errors, toggleVars>>

(***************************************************************************)
(* Initial states.                                                         *)
(***************************************************************************)
NoLabel == Label(Null, 0)

\* the module-level declarations, then the DOMContentLoaded handler:
\* navigate('home'); connectFeedWs(); startFeedStatusPolling(); syncLoopStatus();
InitPage ==
  /\ currentPage = "home"
  /\ activeDebateId = 0
  /\ activeDebateWs = 0
  /\ roomWs = <<>>
  /\ loadCalls = <<>>
  /\ wsText = Null
  /\ feed = <<>>
  /\ lastChunkAgent = NoKey
  /\ lastChunkBubble = 0
  /\ detachedText = <<>>
  /\ verdictPanel = HiddenPanel
  /\ roomLog = <<>>
  /\ feedWs = 1
  /\ feedSockets = <<NewSocket>>
  /\ feedReconnectTimer = 0
  /\ feedTimers = <<>>
  /\ feedWsText = Null
  /\ feedStatusPollTimer = 1
  /\ pollIntervals = <<TRUE>>
  /\ feedStatusPollInFlight = TRUE
  /\ poll = Poll("sent", NoSnapshot, FALSE, 1, "none")
  /\ loopBar = [label |-> NoLabel, topic |-> <<>>, btn |-> Null]
  /\ feedLoopRunning = FALSE
  /\ feedBanner = [visible |-> FALSE, topic |-> <<>>]
  /\ lastLoopContext = [topic |-> <<>>, category |-> "default"]
  /\ feedItems = <<>>
  /\ feedDebateMeta = <<>>
  /\ now = 1
  /\ feedMsg = NoFrame
  /\ feedSeen = 0
  /\ feedRedelivered = FALSE
  /\ metaOrder = <<>>
  /\ errors = NoErrors
  /\ feedToggleBusy = FALSE
  /\ toggle = IdleToggle

(***************************************************************************)
(* SpecRoom: the room stream, with connections coming and going.           *)
(***************************************************************************)
InitRoom == InitPage

NextRoom ==
  \/ \E id \in Rooms : ViewDebate(id)
  \/ \E c \in 1..MaxLoads, ok \in BOOLEAN : LoadDebateResume(c, ok)
  \/ \E w \in 1..MaxLoads : RoomWsOpen(w)
  \/ \E w \in 1..MaxLoads : RoomWsClose(w)
  \/ \E w \in 1..MaxLoads, msg \in CoarseRoomFrames :
       Len(roomLog) < MaxRoomFrames /\ RoomOnMessage(w, msg)

SpecRoom == InitRoom /\ [][NextRoom]_vars

\* SpecRoom with the events the page does not wait for in vain: a fetch that
\* was issued completes and a connecting socket opens. What the user does
\* (viewDebate) and what the transport drops is left open.
SpecRoomFair ==
  /\ SpecRoom
  /\ WF_vars(\E c \in 1..MaxLoads, ok \in BOOLEAN : LoadDebateResume(c, ok))
  /\ WF_vars(\E w \in 1..MaxLoads : RoomWsOpen(w))

(***************************************************************************)
(* SpecAsm: the message assembler under every frame of RoomFrames, from    *)
(* the state in which room 1 is being viewed over an open connection       *)
(* (viewDebate(1), its fetch done, the socket open). viewDebate may be     *)
(* called again: the open connection keeps delivering during its fetch.    *)
(***************************************************************************)
\* the state InitPage, ViewDebate(1), LoadDebateResume(1, TRUE), RoomWsOpen(1) lead to
RoomOneOpen ==
  /\ currentPage = "live"
  /\ activeDebateId = 1
  /\ activeDebateWs = 1
  /\ roomWs = <<[room |-> 1, readyState |-> "OPEN"]>>
  /\ loadCalls = <<[id |-> 1, pending |-> FALSE, seen |-> 0]>>
  /\ wsText = "Connected"
  /\ feed = <<Loader>>
  /\ lastChunkAgent = NoKey
  /\ lastChunkBubble = 0
  /\ detachedText = <<>>
  /\ verdictPanel = HiddenPanel
  /\ roomLog = <<>>
  /\ feedWs = 1
  /\ feedSockets = <<NewSocket>>
  /\ feedReconnectTimer = 0
  /\ feedTimers = <<>>
  /\ feedWsText = Null
  /\ feedStatusPollTimer = 1
  /\ pollIntervals = <<TRUE>>
  /\ feedStatusPollInFlight = TRUE
  /\ poll = Poll("sent", NoSnapshot, FALSE, 1, "none")
  /\ loopBar = [label |-> NoLabel, topic |-> <<>>, btn |-> Null]
  /\ feedLoopRunning = FALSE
  /\ feedBanner = [visible |-> FALSE, topic |-> <<>>]
  /\ lastLoopContext = [topic |-> <<>>, category |-> "default"]
  /\ feedItems = <<>>
  /\ feedDebateMeta = <<>>
  /\ now = 1
  /\ feedMsg = NoFrame
  /\ feedSeen = 0
  /\ feedRedelivered = FALSE
  /\ metaOrder = <<>>
  /\ errors = NoErrors
  /\ feedToggleBusy = FALSE
  /\ toggle = IdleToggle

InitAsm == RoomOneOpen

NextAsm ==
  \/ \E id \in Rooms : ViewDebate(id)
  \/ \E w \in 1..MaxLoads, msg \in RoomFrames :
       Len(roomLog) < MaxAsmFrames /\ RoomOnMessage(w, msg)

SpecAsm == InitAsm /\ [][NextAsm]_vars

(***************************************************************************)
(* SpecFeedWs: the global feed connection: connect, close, error,          *)
(* reconnect timer, navigation. Status polls are started and fail.         *)
(***************************************************************************)
NextFeedWs ==
  \/ \E page \in Pages : Navigate(page)
  \/ \E w \in 1..MaxFeedSockets : FeedWsOpen(w)
  \/ \E w \in 1..MaxFeedSockets : FeedWsClose(w)
  \/ \E w \in 1..MaxFeedSockets : FeedWsCloseAgain(w)
  \/ \E w \in 1..MaxFeedSockets : FeedWsError(w)
  \/ \E t \in 1..MaxFeedSockets : ReconnectFire(t)
  \/ PollFailure

SpecFeedWs == InitPage /\ [][NextFeedWs]_vars

\* SpecFeedWs with fair timers and a fair transport: a pending reconnect timer
\* fires, the close handshake of a socket that was told to close finishes, and
\* a connecting socket opens unless it is closed first.
SpecFeedWsFair ==
  /\ SpecFeedWs
  /\ WF_vars(\E t \in 1..MaxFeedSockets : ReconnectFire(t))
  /\ WF_vars(\E w \in 1..MaxFeedSockets :
               /\ w \in Indices(feedSockets)
               /\ feedSockets[w].readyState = "CLOSING"
               /\ FeedWsClose(w))
  /\ WF_vars(\E w \in 1..MaxFeedSockets : FeedWsOpen(w))

(***************************************************************************)
(* SpecLoop: the loop state shown, written by the status poll (pull) and   *)
(* by the loop_status frames of the feed stream (push).                    *)
(***************************************************************************)
NextLoop ==
  \/ \E w \in 1..MaxFeedSockets : FeedWsOpen(w)
  \/ \E t \in 1..MaxPollTimers : PollTick(t)
  \/ \E snap \in Snapshots : PollReply(snap)
  \/ PollResponse
  \/ PollFailure
  \/ \E w \in 1..MaxFeedSockets, msg \in LoopFrames :
       feedSeen < MaxPushes /\ FeedOnMessage(w, msg, now)

SpecLoop == InitPage /\ [][NextLoop]_vars

(***************************************************************************)
(* SpecFeed: the feed reducer under the frames of FeedFrames, from the     *)
(* state in which the feed socket has opened and the first status poll     *)
(* has failed (InitPage, FeedWsOpen(1), PollFailure).                      *)
(***************************************************************************)
InitFeed ==
  /\ currentPage = "home"
  /\ activeDebateId = 0
  /\ activeDebateWs = 0
  /\ roomWs = <<>>
  /\ loadCalls = <<>>
  /\ wsText = Null
  /\ feed = <<>>
  /\ lastChunkAgent = NoKey
  /\ lastChunkBubble = 0
  /\ detachedText = <<>>
  /\ verdictPanel = HiddenPanel
  /\ roomLog = <<>>
  /\ feedWs = 1
  /\ feedSockets = <<[NewSocket EXCEPT !.readyState = "OPEN"]>>
  /\ feedReconnectTimer = 0
  /\ feedTimers = <<>>
  /\ feedWsText = "Connected"
  /\ feedStatusPollTimer = 1
  /\ pollIntervals = <<TRUE>>
  /\ feedStatusPollInFlight = FALSE
  /\ poll = IdlePoll
  /\ loopBar = [label |-> NoLabel, topic |-> <<>>, btn |-> Null]
  /\ feedLoopRunning = FALSE
  /\ feedBanner = [visible |-> FALSE, topic |-> <<>>]
  /\ lastLoopContext = [topic |-> <<>>, category |-> "default"]
  /\ feedItems = <<>>
  /\ feedDebateMeta = <<>>
  /\ now = 1
  /\ feedMsg = NoFrame
  /\ feedSeen = 0
  /\ feedRedelivered = FALSE
  /\ metaOrder = <<>>
  /\ errors = NoErrors
  /\ feedToggleBusy = FALSE
  /\ toggle = IdleToggle

NextFeed ==
  \E w \in 1..MaxFeedSockets, msg \in FeedFrames, t \in Times :
    /\ feedSeen < MaxFeedFrames
    /\ msg.timestamp # 0 => t = now
    /\ FeedOnMessage(w, msg, t)

SpecFeed == InitFeed /\ [][NextFeed]_vars

(***************************************************************************)
(* SpecNav: page navigation and room switching, next to a global feed      *)
(* connection that closes and reconnects.                                  *)
(***************************************************************************)
NextNav ==
  \/ \E page \in Pages : Navigate(page)
  \/ \E id \in Rooms : ViewDebate(id)
  \/ \E c \in 1..MaxLoads : LoadDebateResume(c, TRUE)
  \/ \E w \in 1..MaxLoads : RoomWsOpen(w)
  \/ \E w \in 1..MaxLoads :
       /\ Len(roomLog) < MaxNavFrames
       /\ RoomOnMessage(w, RoomFrame("agent_chunk", <<"A">>, 1, <<"x">>, "", 0))
  \/ \E w \in 1..MaxFeedSockets : FeedWsClose(w)
  \/ \E t \in 1..MaxFeedSockets : ReconnectFire(t)

SpecNav == InitPage /\ [][NextNav]_vars

(***************************************************************************)
(* SpecMalformed: frames that parse and frames that do not, on an open     *)
(* room socket and an open feed socket.                                    *)
(***************************************************************************)
NextMalformed ==
  \/ \E w \in 1..MaxFeedSockets : FeedWsOpen(w)
  \/ \E w \in 1..MaxLoads, msg \in CoarseRoomFrames :
       Len(roomLog) < MaxRoomFrames /\ RoomOnMessage(w, msg)
  \/ \E w \in 1..MaxLoads :
       errors.dropped + errors.escaped < MaxMalformed /\ RoomOnMalformed(w)
  \/ \E w \in 1..MaxFeedSockets, msg \in StartFrames \cup LoopFrames :
       feedSeen < MaxPushes /\ FeedOnMessage(w, msg, now)
  \/ \E w \in 1..MaxFeedSockets :
       errors.dropped + errors.escaped < MaxMalformed /\ FeedOnMalformed(w)

SpecMalformed == RoomOneOpen /\ [][NextMalformed]_vars

(***************************************************************************)
(* Spec: the whole page.                                                   *)
(***************************************************************************)
Init == InitPage

Next ==
  \/ NextRoom
  \/ NextFeedWs
  \/ NextLoop
  \/ NextFeed
  \/ NextNav
  \/ NextMalformed

Spec == Init /\ [][Next]_vars



(***************************************************************************)
(* Properties of the room stream.                                          *)
(***************************************************************************)
FromConnection(e) == e.conn # 0

\* C1: once loadDebate(B) has been invoked, no frame of the connection that
\* was being viewed is folded into the message feed any more: the transcript
\* holds no entry delivered by a connection to another room that already
\* existed when the latest loadDebate was invoked.
C1_NoFrameOfOldRoom ==
  loadCalls # <<>> =>
    \A i \in Indices(feed) :
      (FromConnection(feed[i]) /\ roomWs[feed[i].conn].room # Last(loadCalls).id)
        => feed[i].conn > Last(loadCalls).seen

AliveRoomSockets == { w \in Indices(roomWs) : Alive(roomWs[w]) }

\* C2: at most one room WebSocket is open or connecting, and it is the one
\* activeDebateWs names: every previously active socket has been closed.
C2_AtMostOneRoomSocket ==
  /\ Cardinality(AliveRoomSockets) <= 1
  /\ \A w \in AliveRoomSockets : w = activeDebateWs

\* two overlapping loadDebate calls whose fetches completed in the reverse
\* order: the first call's socket replaced the second call's
C2_Witness ==
  /\ Len(roomWs) = 2
  /\ loadCalls[1].id # loadCalls[2].id
  /\ roomWs[1].room = loadCalls[2].id
  /\ roomWs[2].room = loadCalls[1].id
  /\ roomWs[1].readyState = "CLOSING"
  /\ Alive(roomWs[2])

StartedOn(w) ==
  \E i \in Indices(feed) :
    feed[i].kind = "divider" /\ feed[i].text = StartLabel /\ feed[i].conn = w

C6_NoStaleDisconnected ==
  (activeDebateWs # 0 /\ roomWs[activeDebateWs].readyState = "OPEN") =>
    wsText = "Connected"

(***************************************************************************)
(* Properties of the message assembler.                                    *)
(***************************************************************************)
Front(s) == SubSeq(s, 1, Len(s) - 1)

NoRun == [open |-> FALSE, key |-> NoKey, text |-> <<>>]

\* The open entry a frame sequence calls for: the chunks delivered since the
\* last frame whose type is in closers, as long as they share one key.
RECURSIVE OpenRun(_, _)
OpenRun(log, closers) ==
  IF log = <<>> THEN NoRun
  ELSE LET f == Last(log)
           r == OpenRun(Front(log), closers)
       IN CASE f.type = "agent_chunk" ->
                 IF r.open /\ r.key = ChunkKey(f)
                 THEN [r EXCEPT !.text = @ \o f.content]
                 ELSE [open |-> TRUE, key |-> ChunkKey(f), text |-> f.content]
            [] f.type \in closers -> NoRun
            [] OTHER -> r

RunMatches(r) ==
  /\ r.open <=> lastChunkBubble # 0
  /\ r.open => lastChunkAgent = r.key /\ PointerText = r.text

Dividers == {"round_start", "debate_start", "debate_end"}

CompleteMessages == {"historical", "agent_done"}

PendingReconnects == { t \in Indices(feedTimers) : feedTimers[t] = "pending" }

AliveFeedSockets == { w \in Indices(feedSockets) : Alive(feedSockets[w]) }

\* C5: after a close of the feed connection exactly one reconnect is
\* scheduled, a second close event schedules no second one, a pending
\* reconnect timer never coexists with an open or connecting feed socket, and
\* no two feed sockets are alive at once.
C5_SingleFlightReconnect ==
  /\ Cardinality(PendingReconnects) <= 1
  /\ Cardinality(AliveFeedSockets) <= 1
  /\ AliveFeedSockets \subseteq {feedWs}
  /\ ~(PendingReconnects # {} /\ AliveFeedSockets # {})
  /\ feedWs = 0 => Cardinality(PendingReconnects) = 1

\* a second close event reached the handler of the closed socket while its
\* reconnect was pending
C5_Witness ==
  \E w \in Indices(feedSockets) :
    /\ feedSockets[w].closes = 2
    /\ feedWs = 0
    /\ PendingReconnects # {}

(***************************************************************************)
(* Properties of the loop state shown.                                     *)
(***************************************************************************)
\* C7: a status pull whose response arrives after a loop_status push with
\* phase Active, but which the backend answered before that push, leaves the
\* loop state shown (label, banner, loop context) as the push set it.
C7_StalePullKeepsPush ==
  [][ ( /\ poll.phase = "replied"
        /\ poll.pushed
        /\ feedMsg.type = "loop_status"
        /\ feedMsg.status = "debating"
        /\ poll'.phase = "idle" )
      => UNCHANGED loopVars ]_vars

(***************************************************************************)
(* Properties of the feed reducer.                                         *)
(***************************************************************************)
\* C8: the feed list never holds more than FEED_MAX_ITEMS items.
C8_FeedBounded == Len(feedItems) <= FEED_MAX_ITEMS

\* the list is full and the item of room 2, which the cache remembers, was evicted
C8_Witness ==
  /\ Len(feedItems) = FEED_MAX_ITEMS
  /\ HasMeta(feedDebateMeta, 2)
  /\ \A i \in Indices(feedItems) : feedItems[i].debate_id = 1

\* the step is processFeedEvent(feedMsg')
FeedStep == feedSeen' = feedSeen + 1

\* processFeedEvent(msg) calls pushFeedItem on the list items
PushesItem(msg, items) ==
  \/ msg.type = "debate_start"
  \/ msg.type = "agent_done" /\ msg.round = 3
  \/ msg.type = "debate_end" /\ findOpenOrVerdict(items, msg.debate_id) = 0

Overflows == FeedStep /\ Len(feedItems) = FEED_MAX_ITEMS /\ PushesItem(feedMsg', feedItems)

RemoveAt(s, k) == SubSeq(s, 1, k - 1) \o SubSeq(s, k + 1, Len(s))

\* C9 as stated: an insertion beyond capacity evicts an item whose timestamp
\* is the oldest among the items in the list.
C9_EvictsOldestTimestamp ==
  [][ Overflows =>
        \E k \in Indices(feedItems) :
          /\ \A i \in Indices(feedItems) : feedItems[k].ts <= feedItems[i].ts
          /\ Front(feedItems') = RemoveAt(feedItems, k) ]_vars

\* C9, amended: an insertion beyond capacity evicts the item at the front of
\* the list (the earliest-inserted slot), whatever the timestamps, and the
\* inserted item becomes the last one.
C9_EvictsFront ==
  [][ Overflows =>
        /\ Front(feedItems') = Tail(feedItems)
        /\ Last(feedItems').type = feedMsg'.type
        /\ Last(feedItems').debate_id = feedMsg'.debate_id ]_vars

\* the item of room 2 was evicted from a full list whose timestamps are out of order
C9_Witness ==
  /\ C8_Witness
  /\ \E i, j \in Indices(feedItems) : i < j /\ feedItems[i].ts > feedItems[j].ts

ItemsOfRoom(items, id) == { i \in Indices(items) : items[i].debate_id = id }

OpenOrVerdictOfRoom(items, id) ==
  { i \in ItemsOfRoom(items, id) : items[i].type \in {"debate_start", "debate_end"} }

\* the step is processFeedEvent of a debate_end whose room has a debate_start item
EndsOpenedRoom ==
  /\ FeedStep
  /\ feedMsg'.type = "debate_end"
  /\ \E i \in ItemsOfRoom(feedItems, feedMsg'.debate_id) :
       feedItems[i].type = "debate_start"

\* C10 as stated: after a debate_end for a room with a debate_start item, the
\* list holds exactly one item for that room, of kind Verdict.
C10_ExactlyOneItemOfRoom ==
  [][ EndsOpenedRoom =>
        \E k \in Indices(feedItems') :
          /\ ItemsOfRoom(feedItems', feedMsg'.debate_id) = {k}
          /\ feedItems'[k].type = "debate_end" ]_vars

\* C10, amended: the verdict item replaces in place the first debate_start or
\* debate_end item of the room; every other item (round-3 conclusions,
\* duplicated debate_start items) stays; when that item was the room's only
\* debate_start/debate_end item, the room afterwards has exactly one such item,
\* of kind Verdict.
C10_VerdictReplacesInPlace ==
  [][ EndsOpenedRoom =>
        LET id == feedMsg'.debate_id
            k  == findOpenOrVerdict(feedItems, id)
        IN /\ k > 0
           /\ Len(feedItems') = Len(feedItems)
           /\ feedItems'[k].type = "debate_end"
           /\ feedItems'[k].debate_id = id
           /\ feedItems'[k].verdict = feedMsg'.verdict
           /\ \A j \in Indices(feedItems) : j # k => feedItems'[j] = feedItems[j]
           /\ OpenOrVerdictOfRoom(feedItems, id) = {k} =>
                OpenOrVerdictOfRoom(feedItems', id) = {k} ]_vars

\* debate_start, a round-3 conclusion and debate_end of room 1 were processed:
\* the verdict stands in the slot of the debate_start, before the conclusion
C10_Witness ==
  /\ feedSeen = 3
  /\ feedMsg.type = "debate_end"
  /\ Len(feedItems) = 2
  /\ feedItems[1].type = "debate_end" /\ feedItems[1].debate_id = 1
  /\ feedItems[1].topic = TopicWill
  /\ feedItems[2].type = "agent_done" /\ feedItems[2].debate_id = 1

VerdictsOfRoom(items, id) ==
  { i \in ItemsOfRoom(items, id) : items[i].type = "debate_end" }

\* C11: the feed list holds at most one Verdict (debate_end) item per room,
\* whatever the order, duplication and interleaving of debate_start,
\* agent_done and debate_end frames, and whatever was evicted. The verdict is
\* moreover the first debate_start/debate_end item of its room.
C11_OneVerdictPerRoom ==
  \A id \in Rooms :
    /\ Cardinality(VerdictsOfRoom(feedItems, id)) <= 1
    /\ \A k \in VerdictsOfRoom(feedItems, id) :
         \A j \in OpenOrVerdictOfRoom(feedItems, id) : k <= j

\* debate_end of room 1 was delivered twice, with a debate_start of the room
\* in between: one verdict, followed by the debate_start item
C11_Witness ==
  /\ feedSeen = 3
  /\ feedMsg.type = "debate_end" /\ feedMsg.debate_id = 1
  /\ Len(feedItems) = 2
  /\ feedItems[1].type = "debate_end" /\ feedItems[1].debate_id = 1
  /\ feedItems[2].type = "debate_start" /\ feedItems[2].debate_id = 1

\* the step is processFeedEvent of the debate_end frame it handled just before
RedeliversEnd == FeedStep /\ feedMsg' = feedMsg /\ feedMsg.type = "debate_end"

\* C12 as stated: processing the same debate_end frame a second time leaves
\* the feed list and the metadata cache as they were after the first time.
C12_RedeliveryIdempotent ==
  [][ RedeliversEnd => UNCHANGED <<feedItems, feedDebateMeta>> ]_vars

\* C12, amended: a debate_end frame processed again right after it was
\* processed leaves the metadata cache unchanged and rewrites the room's verdict
\* item in place, appending nothing; the item is the same except for its
\* timestamp when the frame carries none (the time of the second processing).
\* Whatever happened in between, a debate_end of a room that has a
\* debate_start or verdict item in the list keeps the list's length and every
\* other item, and a debate_end of a room without one appends the verdict.
C12_RedeliveryInPlace ==
  [][ /\ RedeliversEnd =>
           LET k == findOpenOrVerdict(feedItems, feedMsg.debate_id)
           IN /\ feedDebateMeta' = feedDebateMeta
              /\ k > 0
              /\ feedItems[k].type = "debate_end"
              /\ feedItems' =
                   [feedItems EXCEPT ![k].ts =
                      IF feedMsg.timestamp # 0 THEN feedItems[k].ts ELSE now']
      /\ (FeedStep /\ feedMsg'.type = "debate_end") =>
           LET k == findOpenOrVerdict(feedItems, feedMsg'.debate_id)
           IN IF k > 0
              THEN /\ Len(feedItems') = Len(feedItems)
                   /\ \A j \in Indices(feedItems) : j # k => feedItems'[j] = feedItems[j]
              ELSE /\ Last(feedItems').type = "debate_end"
                   /\ Last(feedItems').debate_id = feedMsg'.debate_id
                   /\ Front(feedItems') =
                        IF Len(feedItems) < FEED_MAX_ITEMS THEN feedItems
                        ELSE Tail(feedItems) ]_vars

\* a debate_end frame of room 1 was redelivered while the cache held room 2
\* and then room 1: one verdict item for room 1, the cache in the same order
C12_Witness ==
  /\ feedRedelivered
  /\ feedMsg.type = "debate_end" /\ feedMsg.debate_id = 1
  /\ Cardinality(VerdictsOfRoom(feedItems, 1)) = 1
  /\ Len(feedDebateMeta) = 2
  /\ feedDebateMeta[1].id = 1 /\ feedDebateMeta[2].id = 2

\* the items of the list a frame of this room, kind and participant stands for
ItemsLike(items, msg) ==
  { i \in Indices(items) :
      /\ items[i].debate_id = msg.debate_id
      /\ items[i].type = msg.type
      /\ msg.type = "agent_done" => items[i].agent = msg.agent }

\* C13: after the redelivery of a debate_start frame or of a round-3
\* agent_done frame, the feed list holds no two items for the frame's
\* (room, kind, participant).
C13_RedeliveryDeduplicated ==
  ( /\ feedRedelivered
    /\ \/ feedMsg.type = "debate_start"
       \/ feedMsg.type = "agent_done" /\ feedMsg.round = 3 )
  => Cardinality(ItemsLike(feedItems, feedMsg)) <= 1

(***************************************************************************)
(* Properties of navigation.                                               *)
(***************************************************************************)
\* C14: navigating away from the live view closes the room socket (no room
\* socket stays connecting or open), and while another page is shown no frame
\* changes the transcript or the chunk pointer.
C14_AwayCancelsRoom ==
  [][ /\ (currentPage = "live" /\ currentPage' # "live") =>
           \A w \in Indices(roomWs') : ~Alive(roomWs'[w])
      /\ (currentPage # "live" /\ currentPage' # "live") =>
           UNCHANGED <<feed, lastChunkAgent, lastChunkBubble>> ]_vars

\* a step of navigate (to another page), viewDebate or loadDebate
NavStep == currentPage' # currentPage \/ loadCalls' # loadCalls

\* a step of navigate('feed'): the page becomes the feed page, or (on the feed
\* page already) the status-poll interval is set anew
FeedNav ==
  \/ currentPage' = "feed" /\ currentPage # "feed"
  \/ feedStatusPollTimer' # feedStatusPollTimer

\* C15 as stated: room switching and page navigation leave the feed
\* connection, its reconnect timer, the status-poll timer, the feed list, the
\* metadata cache and the loop context unchanged.
C15_NavigationLeavesFeed ==
  [][ (NavStep \/ FeedNav) =>
        UNCHANGED <<feedWs, feedSockets, feedReconnectTimer, feedTimers,
                    feedStatusPollTimer, pollIntervals,
                    feedItems, feedDebateMeta, lastLoopContext>> ]_vars

\* C15, amended: viewDebate, loadDebate and navigate to a page other than the
\* feed page leave all of these unchanged. navigate('feed') leaves the feed
\* list, the metadata cache and the loop context unchanged and a connecting or
\* open feed connection as it is, but replaces the status-poll interval by a
\* new one, and when no feed connection is alive it cancels the pending
\* reconnect timer and opens a new feed connection at once.
C15_NavigationKeepsFeed ==
  [][ /\ (NavStep /\ ~FeedNav) =>
           UNCHANGED <<feedWs, feedSockets, feedReconnectTimer, feedTimers,
                       feedStatusPollTimer, pollIntervals,
                       feedItems, feedDebateMeta, lastLoopContext>>
      /\ FeedNav =>
           /\ UNCHANGED <<feedItems, feedDebateMeta, lastLoopContext>>
           /\ feedStatusPollTimer' # feedStatusPollTimer
           /\ { t \in Indices(pollIntervals') : pollIntervals'[t] } = {feedStatusPollTimer'}
           /\ IF feedWs # 0 /\ Alive(feedSockets[feedWs])
              THEN UNCHANGED <<feedWs, feedSockets, feedReconnectTimer, feedTimers>>
              ELSE /\ feedWs' = Len(feedSockets) + 1
                   /\ Alive(feedSockets'[feedWs'])
                   /\ feedReconnectTimer' = 0
                   /\ \A t \in Indices(feedTimers') : feedTimers'[t] # "pending" ]_vars

\* a room was opened, and navigate('feed') cancelled a pending reconnect
C15_Witness ==
  /\ currentPage = "feed"
  /\ loadCalls # <<>>
  /\ \E t \in Indices(feedTimers) : feedTimers[t] = "cleared"
  /\ Len(pollIntervals) >= 2

(***************************************************************************)
(* Properties of reconnection.                                             *)
(***************************************************************************)
\* the transport closed room socket w, which the page had not replaced
RoomDropped(w) ==
  /\ w \in Indices(roomWs)
  /\ w = activeDebateWs
  /\ roomWs[w].readyState = "CLOSED"

\* a socket to the room of socket w was created after w
RoomReconnected(w) ==
  \E v \in Indices(roomWs) : v > w /\ roomWs[v].room = roomWs[w].room

\* C16: a transport close of the room socket that the page did not cancel is
\* followed by a reconnect to the same room (and likewise on the global feed,
\* for which see C17).
C16_RoomCloseReconnects ==
  \A w \in 1..MaxLoads : RoomDropped(w) ~> RoomReconnected(w)

FeedAlive == feedWs # 0 /\ Alive(feedSockets[feedWs])

\* C17: under fair timers, whenever no feed connection is alive (after a close
\* or an error) a new connection attempt follows, again and again while the
\* attempts fail (up to the model's bound on sockets), and a connection attempt
\* ends in the Connected state unless the transport closes it first.
C17_FeedRecovers ==
  /\ \A n \in 1..(MaxFeedSockets - 1) :
       (Len(feedSockets) = n /\ ~FeedAlive) ~> (Len(feedSockets) > n)
  /\ FeedAlive ~> (~FeedAlive \/ (feedSockets[feedWs].readyState = "OPEN"
                                    /\ feedWsText = "Connected"))

\* the feed is connected on its last socket after every earlier attempt was
\* closed, each close followed by a reconnect timer that fired
C17_Witness ==
  /\ Len(feedSockets) = MaxFeedSockets
  /\ feedWs = MaxFeedSockets
  /\ feedSockets[feedWs].readyState = "OPEN"
  /\ feedWsText = "Connected"
  /\ \A t \in 1..(MaxFeedSockets - 1) : t \in Indices(feedTimers) /\ feedTimers[t] = "fired"

(***************************************************************************)
(* Properties of the message handlers.                                     *)
(***************************************************************************)
\* the step is a message handler given a payload that does not parse
MalformedStep == errors' # errors

\* C18: a frame whose payload cannot be parsed, on the room stream or on the
\* feed stream, is dropped: connection state, transcript, chunk pointer, feed
\* list, metadata cache and loop state are unchanged, and no error leaves the
\* message handler.
C18_MalformedDropped ==
  [][ MalformedStep =>
        /\ UNCHANGED <<currentPage, roomVars, feedWsVars, pollVars, loopVars, reducerVars>>
        /\ errors'.escaped = errors.escaped ]_vars

(***************************************************************************)
(* Properties of the status pull.                                          *)
(***************************************************************************)
\* C19: at most one status pull is outstanding; the in-flight flag is set
\* exactly while one is; a pull that fails leaves label, banner, running flag
\* and loop context as they were; and the step that ends a pull, with a
\* response or a failure, clears the in-flight flag.
C19_SingleFlightPull ==
  [][ /\ poll'.flying <= 1
      /\ feedStatusPollInFlight' <=> (poll'.flying = 1)
      /\ poll'.flying < poll.flying => ~feedStatusPollInFlight'
      /\ (poll'.flying < poll.flying /\ poll'.outcome = "failed") => UNCHANGED loopVars
      /\ (feedStatusPollInFlight /\ poll'.phase = "sent") => poll' = poll ]_vars

\* a pull failed after a push had set the loop state to running: the state
\* shown is still the push's, and the next tick may pull
C19_Witness ==
  /\ poll.outcome = "failed"
  /\ ~feedStatusPollInFlight
  /\ feedLoopRunning
  /\ feedMsg.type = "loop_status"

(***************************************************************************)
(* Properties of the rendered feed.                                        *)
(***************************************************************************)
\* C20: every card rendered for a room that has a metadata cache entry shows
\* the cached category and the cached topic, and is shown under a category
\* filter only when the cached category is that filter. Stated for the cards of
\* round-3 conclusions, the items the claim names.
C20_RenderUsesCache ==
  \A filter \in FeedFilters :
    LET cards == renderFeedItems(feedItems, filter)
    IN \A k \in Indices(cards) :
         (cards[k].type = "agent_done" /\ HasMeta(feedDebateMeta, cards[k].debate_id)) =>
           LET meta == getMeta(feedDebateMeta, cards[k].debate_id)
           IN /\ cards[k].cat = meta.category
              /\ meta.topic # <<>> => cards[k].title = Slice(meta.topic, CardTitleLen)
              /\ filter # "all" => meta.category = filter

(***************************************************************************)
(* SpecScenario: one debate from its start to its verdict, seen on the     *)
(* room stream and on the global feed stream at once. Both streams carry   *)
(* the frames debate_start, agent_chunk, agent_chunk, debate_end in this   *)
(* order; the text of the message is cut into two chunks anywhere.         *)
(***************************************************************************)
ScenarioTopic == <<"W", "i", "l", "l", " ", "X", " ", "w", "i", "n", "?">>

ScenarioText == <<"I", " ", "t", "h", "i", "n", "k", " ", "y", "e", "s">>

\* the places where ScenarioText may be cut into two non-empty chunks
ScenarioCuts == 1..(Len(ScenarioText) - 1)

\* the frames the room stream may deliver after those of log
ScenarioRoomNext(log) ==
  CASE Len(log) = 0 ->
         { RoomFrame("debate_start", <<>>, 0, <<StartedPrefix>> \o ScenarioTopic, "", 0) }
    [] Len(log) = 1 ->
         { RoomFrame("agent_chunk", <<"A">>, 3, Slice(ScenarioText, k), "", 0) :
             k \in ScenarioCuts }
    [] Len(log) = 2 ->
         { RoomFrame("agent_chunk", <<"A">>, 3,
                     SubSeq(ScenarioText, Len(log[2].content) + 1, Len(ScenarioText)),
                     "", 0) }
    [] Len(log) = 3 ->
         { RoomFrame("debate_end", <<>>, 0, <<>>, "pass", 82) }
    [] OTHER -> {}

\* the frames the feed stream may deliver for room id after seen frames, the
\* last of them being last
ScenarioFeedNext(seen, last, id) ==
  CASE seen = 0 ->
         { FeedFrame("debate_start", id, 0, <<>>, <<>>, "",
                     <<StartedPrefix>> \o ScenarioTopic, "", {}, 0, "", FALSE, 0) }
    [] seen = 1 ->
         { FeedFrame("agent_chunk", id, 3, <<"A">>, <<>>, "", Slice(ScenarioText, k),
                     "", {}, 0, "", FALSE, 0) : k \in ScenarioCuts }
    [] seen = 2 ->
         { FeedFrame("agent_chunk", id, 3, <<"A">>, <<>>, "",
                     SubSeq(ScenarioText, Len(last.content) + 1, Len(ScenarioText)),
                     "", {}, 0, "", FALSE, 0) }
    [] seen = 3 ->
         { FeedFrame("debate_end", id, 0, <<>>, <<>>, "", <<>>, "pass", {}, 0,
                     "", FALSE, 0) }
    [] OTHER -> {}

\* a room of Rooms is open in the live view and the feed socket is open;
\* nothing has arrived on either stream
InitScenario ==
  /\ currentPage = "live"
  /\ activeDebateId \in Rooms
  /\ activeDebateWs = 1
  /\ roomWs = <<[room |-> activeDebateId, readyState |-> "OPEN"]>>
  /\ loadCalls = <<[id |-> activeDebateId, pending |-> FALSE, seen |-> 0]>>
  /\ wsText = "Connected"
  /\ feed = <<Loader>>
  /\ lastChunkAgent = NoKey
  /\ lastChunkBubble = 0
  /\ detachedText = <<>>
  /\ verdictPanel = HiddenPanel
  /\ roomLog = <<>>
  /\ feedWs = 1
  /\ feedSockets = <<[NewSocket EXCEPT !.readyState = "OPEN"]>>
  /\ feedReconnectTimer = 0
  /\ feedTimers = <<>>
  /\ feedWsText = "Connected"
  /\ feedStatusPollTimer = 1
  /\ pollIntervals = <<TRUE>>
  /\ feedStatusPollInFlight = FALSE
  /\ poll = IdlePoll
  /\ loopBar = [label |-> NoLabel, topic |-> <<>>, btn |-> Null]
  /\ feedLoopRunning = FALSE
  /\ feedBanner = [visible |-> FALSE, topic |-> <<>>]
  /\ lastLoopContext = [topic |-> <<>>, category |-> "default"]
  /\ feedItems = <<>>
  /\ feedDebateMeta = <<>>
  /\ now = 1
  /\ feedMsg = NoFrame
  /\ feedSeen = 0
  /\ feedRedelivered = FALSE
  /\ metaOrder = <<>>
  /\ errors = NoErrors
  /\ feedToggleBusy = FALSE
  /\ toggle = IdleToggle

NextScenario ==
  \/ \E msg \in ScenarioRoomNext(roomLog) : RoomOnMessage(activeDebateWs, msg)
  \/ \E msg \in ScenarioFeedNext(feedSeen, feedMsg, activeDebateId) :
       FeedOnMessage(feedWs, msg, now)

SpecScenario == InitScenario /\ [][NextScenario]_vars

\* the message entries of the transcript: bubbles built from chunks or from
\* complete messages
MessageEntries == SelectSeq(feed, LAMBDA e : e.kind \in {"chunk", "msg"})

ScenarioRoomDone == Len(roomLog) = 4

ScenarioFeedDone == feedSeen = 4

\* C21: once the room stream has delivered debate_start, the two chunks of
\* "I think yes" by A in round 3 and debate_end with verdict pass and
\* confidence 82, the transcript has exactly one message entry, by A in round 3
\* with the text "I think yes", and the verdict panel shows pass and 82; once
\* the feed stream has delivered the same events, the feed list has exactly one
\* item of the room, a verdict item of category prediction.
C21_EndToEnd ==
  /\ ScenarioRoomDone =>
       /\ MessageEntries =
            << Entry("chunk", activeDebateWs, <<"A">>, 3, ScenarioText) >>
       /\ verdictPanel = [shown |-> TRUE, verdict |-> "pass", confidence |-> 82]
  /\ ScenarioFeedDone =>
       /\ Cardinality(ItemsOfRoom(feedItems, activeDebateId)) = 1
       /\ \A i \in Indices(feedItems) :
            feedItems[i].debate_id = activeDebateId =>
              /\ feedItems[i].type = "debate_end"
              /\ feedItems[i].verdict = "pass"
              /\ feedItems[i].category = "prediction"

\* both streams have delivered the whole scenario, the chunks cut as "I " and
\* "think yes"
C21_Witness ==
  /\ ScenarioRoomDone
  /\ ScenarioFeedDone
  /\ roomLog[2].content = <<"I", " ">>
  /\ Len(MessageEntries) = 1
  /\ Len(feedItems) = 1

(***************************************************************************)
(* SpecInfer: inferFeedCategory applied by the debate_start branch of      *)
(* processFeedEvent to topics built from the keyword groups. No loop       *)
(* status has arrived, so lastLoopContext.topic is empty and the category  *)
(* of a debate_start item is inferFeedCategory(topic, 'default').          *)
(***************************************************************************)
MaxInferFrames == 1

\* the categories inferFeedCategory looks for, in the order of its tests
InferGroups ==
  <<"breaking", "conspiracy", "technical", "strategy", "prediction", "historical">>

\* the first word each test of inferFeedCategory looks for
GroupWord ==
  << BreakingPrefix,
     <<"c", "o", "n", "s", "p", "i", "r", "a", "c", "y">>,
     <<"t", "e", "c", "h", "n", "i", "c", "a", "l">>,
     <<"s", "t", "r", "a", "t", "e", "g", "y">>,
     <<"p", "r", "e", "d", "i", "c", "t">>,
     <<"h", "i", "s", "t", "o", "r", "i", "c", "a", "l">> >>

GroupKeywords(g) ==
  CASE g = 1 -> {BreakingPrefix}
    [] g = 2 -> ConspiracyKeywords
    [] g = 3 -> TechnicalKeywords
    [] g = 4 -> StrategyKeywords
    [] g = 5 -> PredictionKeywords
    [] g = 6 -> HistoricalKeywords

\* the words of the groups of S, from group g on, separated by single spaces
RECURSIVE JoinUp(_, _)
JoinUp(S, g) ==
  IF g > Len(InferGroups) THEN <<>>
  ELSE IF g \in S
       THEN LET rest == JoinUp(S, g + 1)
            IN IF rest = <<>> THEN GroupWord[g] ELSE GroupWord[g] \o <<" ">> \o rest
       ELSE JoinUp(S, g + 1)

\* the same words from group g down to the first: a word of a group tested
\* later comes before the word of a group tested earlier
RECURSIVE JoinDown(_, _)
JoinDown(S, g) ==
  IF g < 1 THEN <<>>
  ELSE IF g \in S
       THEN LET rest == JoinDown(S, g - 1)
            IN IF rest = <<>> THEN GroupWord[g] ELSE GroupWord[g] \o <<" ">> \o rest
       ELSE JoinDown(S, g - 1)

InferTopics ==
  { JoinUp(S, 1) : S \in SUBSET (1..Len(InferGroups)) }
  \cup { JoinDown(S, Len(InferGroups)) : S \in SUBSET (1..Len(InferGroups)) }
  \cup UNION { GroupKeywords(g) : g \in 1..Len(InferGroups) }
  \cup { TopicWill, TopicPit, ScenarioTopic, <<"x">>,
         <<" ", "B", "R", "E", "A", "K", "I", "N", "G", ":", " ", "D", "R", "S">>,
         <<"S", "a", "f", "e", "t", "y", " ", "\t", "C", "a", "r", " ", "e", "r", "a">>,
         <<"x", "b", "r", "e", "a", "k", "i", "n", "g", ":">> }

NextInfer ==
  \E topic \in InferTopics :
    /\ feedSeen < MaxInferFrames
    /\ FeedOnMessage(feedWs,
                     FeedFrame("debate_start", 1, 0, <<>>, <<>>, "",
                               <<StartedPrefix>> \o topic, "", {}, 0, "", FALSE, 0),
                     now)

SpecInfer == InitFeed /\ [][NextInfer]_vars

\* group g occurs in the normalized topic t: the marker as a prefix, any other
\* group by one of its keywords anywhere
GroupOccurs(g, t) ==
  IF g = 1 THEN StartsWith(t, BreakingPrefix) ELSE IncludesAny(t, GroupKeywords(g))

OccurringGroups(topic) ==
  { g \in 1..Len(InferGroups) : GroupOccurs(g, normalizedTopic(topic)) }

HighestPriority(topic, fallback) ==
  LET occ == OccurringGroups(topic)
  IN IF occ = {} THEN fallback
     ELSE InferGroups[CHOOSE g \in occ : \A h \in occ : g <= h]

\* C22: the category inferred for a topic is the first, in the order breaking,
\* conspiracy, technical, strategy, prediction, historical, of the keyword
\* groups that occur in the normalized topic, and the fallback when none occurs
\* or the topic is empty: every debate_start item made without a category of
\* its own and without a loop context has that category.
C22_HighestPriorityGroup ==
  \A i \in Indices(feedItems) :
    feedItems[i].type = "debate_start" =>
      feedItems[i].category = HighestPriority(feedItems[i].topic, "default")

\* a topic in which every group but the marker occurs, the words of the
\* later groups first, was classified as conspiracy
C22_Witness ==
  \E i \in Indices(feedItems) :
    /\ feedItems[i].type = "debate_start"
    /\ OccurringGroups(feedItems[i].topic) = 2..Len(InferGroups)
    /\ Includes(feedItems[i].topic, GroupWord[6] \o <<" ">> \o GroupWord[5])
    /\ feedItems[i].category = "conspiracy"

\* a step that handles an agent_done frame of a round other than 3, or a
\* loop_status frame
QuietFeedStep ==
  /\ FeedStep
  /\ \/ feedMsg'.type = "agent_done" /\ feedMsg'.round # 3
     \/ feedMsg'.type = "loop_status"

ConclusionStep == FeedStep /\ feedMsg'.type = "agent_done" /\ feedMsg'.round = 3

\* C23: an agent_done frame of round 3 adds an item of type agent_done to the
\* feed list; an agent_done frame of another round and a loop_status frame
\* leave the feed list and the metadata cache as they are.
C23_OnlyRoundThreeConcludes ==
  [][ /\ QuietFeedStep => feedItems' = feedItems /\ feedDebateMeta' = feedDebateMeta
      /\ ConclusionStep =>
           /\ feedItems' # <<>>
           /\ Last(feedItems').type = "agent_done"
           /\ Last(feedItems').debate_id = feedMsg'.debate_id
           /\ Last(feedItems').content = feedMsg'.content ]_vars

\* an agent_done frame of round 1 was the last frame handled, items and cache
\* entries exist and none of the items is a conclusion
C23_Witness ==
  /\ feedMsg.type = "agent_done"
  /\ feedMsg.round = 1
  /\ feedItems # <<>>
  /\ feedDebateMeta # <<>>
  /\ \A i \in Indices(feedItems) : feedItems[i].type # "agent_done"

(***************************************************************************)
(* SpecBeat: heartbeats among other frames, on an open room socket and an  *)
(* open feed socket.                                                       *)
(***************************************************************************)
MaxBeatFrames == 3

BeatRoomFrames ==
  { RoomFrame("ping", <<>>, 0, <<>>, "", 0),
    RoomFrame("agent_chunk", <<"A">>, 1, <<"x">>, "", 0),
    RoomFrame("debate_end", <<>>, 0, <<"s">>, "pass", 82) }

BeatFeedFrames ==
  { PingFrame,
    LoopFrame("debating", TRUE, TopicWill, "", 2),
    FeedFrame("debate_start", 1, 0, <<>>, <<>>, "", <<StartedPrefix>> \o TopicPit,
              "", {}, 0, "", FALSE, 0) }

NextBeat ==
  \/ \E msg \in BeatRoomFrames :
       Len(roomLog) < MaxBeatFrames /\ RoomOnMessage(activeDebateWs, msg)
  \/ \E msg \in BeatFeedFrames :
       feedSeen < MaxBeatFrames /\ FeedOnMessage(feedWs, msg, now)

SpecBeat == InitScenario /\ [][NextBeat]_vars

\* a step that handles a ping frame on the room stream
RoomBeatStep == Len(roomLog') = Len(roomLog) + 1 /\ Last(roomLog').type = "ping"

\* a step that handles a ping frame on the feed stream
FeedBeatStep == FeedStep /\ feedMsg'.type = "ping"

\* C24: a ping frame on the room stream leaves the transcript, the chunk
\* pointer and the verdict panel as they are, and a ping frame on the feed
\* stream leaves the feed list, the metadata cache, the loop context, the loop
\* label and the banner as they are.
C24_HeartbeatChangesNothing ==
  [][ /\ RoomBeatStep =>
           UNCHANGED <<feed, lastChunkAgent, lastChunkBubble, detachedText, verdictPanel>>
      /\ FeedBeatStep =>
           UNCHANGED <<feedItems, feedDebateMeta, lastLoopContext, loopBar,
                       feedLoopRunning, feedBanner>> ]_vars

\* the last frame of either stream was a ping; before it, a chunk had opened a
\* bubble in the transcript, a loop status had set the loop context and a
\* debate_start had made a feed item
C24_Witness ==
  /\ Len(roomLog) = 2
  /\ roomLog[1].type = "agent_chunk"
  /\ roomLog[2].type = "ping"
  /\ lastChunkBubble > 0
  /\ feedMsg.type = "ping"
  /\ feedItems # <<>>
  /\ lastLoopContext.topic = TopicWill
  /\ loopBar.label = Label("live", 2)

(***************************************************************************)
(* SpecToggle: toggleLoop calls next to the status poll and the            *)
(* loop_status frames of the feed stream.                                  *)
(***************************************************************************)
MaxToggles == 2

NextToggle ==
  \/ toggle.clicks < MaxToggles /\ ToggleLoop
  \/ \E running \in BOOLEAN : ToggleStatusReply(running)
  \/ \E result \in Snapshots : TogglePostReply(result)
  \/ ToggleFailure
  \/ \E snap \in Snapshots : PollReply(snap)
  \/ PollResponse
  \/ PollFailure
  \/ \E msg \in LoopFrames : feedSeen < MaxPushes /\ FeedOnMessage(feedWs, msg, now)

SpecToggle == InitFeed /\ [][NextToggle]_vars

\* a step in which a toggleLoop call ends in its catch block
ToggleFailStep ==
  toggle.phase # "idle" /\ toggle'.phase = "idle" /\ toggle'.outcome = "failed"

\* a toggleLoop call made while another one is in flight
SecondToggleStep == feedToggleBusy /\ toggle'.clicks = toggle.clicks + 1

\* C25: a toggleLoop call whose status fetch or post fails leaves the loop
\* label and topic, feedLoopRunning, the banner, the loop context and the feed
\* list as they are, releases the busy flag and the button, and sends no
\* further request (only a toggleLoop call starts a submission); a call made
\* while one is in flight changes nothing; the busy flag is set exactly while a
\* call is in flight, so a call made after a failure runs.
C25_FailedToggle ==
  /\ [](feedToggleBusy <=> toggle.phase # "idle")
  /\ [][ /\ ToggleFailStep =>
              /\ loopBar'.label = loopBar.label
              /\ loopBar'.topic = loopBar.topic
              /\ loopBar'.btn # Working
              /\ UNCHANGED <<feedLoopRunning, feedBanner, lastLoopContext, feedItems,
                             feedDebateMeta>>
              /\ ~feedToggleBusy'
              /\ toggle'.requests = toggle.requests
         /\ (toggle.phase = "idle" /\ toggle'.requests # toggle.requests) =>
              toggle'.clicks = toggle.clicks + 1
         /\ SecondToggleStep =>
              /\ UNCHANGED <<currentPage, roomVars, feedWsVars, pollVars, loopVars,
                             reducerVars, feedToggleBusy>>
              /\ toggle'.phase = toggle.phase
              /\ toggle'.requests = toggle.requests ]_vars

\* the first call failed at its status fetch while the loop was shown as live,
\* and the second call is in flight
C25_Witness ==
  /\ toggle.clicks = 2
  /\ toggle.requests = 2
  /\ toggle.phase = "status"
  /\ feedToggleBusy
  /\ loopBar.btn = Working
  /\ loopBar.label = Label("live", 2)

DividerTypes == {"round_start", "debate_start", "debate_end"}

\* a divider frame was handled and no chunk after it
AfterDivider(log) ==
  \E i \in Indices(log) :
    /\ log[i].type \in DividerTypes
    /\ \A j \in (i + 1)..Len(log) : log[j].type # "agent_chunk"

\* a step that handles the first agent_chunk frame after a divider frame
ChunkAfterDividerStep ==
  /\ Len(roomLog') = Len(roomLog) + 1
  /\ Last(roomLog').type = "agent_chunk"
  /\ AfterDivider(roomLog)

CompleteMessageStep ==
  /\ Len(roomLog') = Len(roomLog) + 1
  /\ Last(roomLog').type \in {"historical", "agent_done"}

\* C27: a historical or agent_done frame on the room stream adds one entry of
\* its own at the end of the transcript and changes no other entry;
\* lastChunkAgent stays, lastChunkBubble refers to the same bubble with the same
\* text, so the open chunk entry is neither closed nor modified.
C27_CompleteMessageKeepsPointer ==
  [][ CompleteMessageStep =>
        /\ feed' = Append(RemoveLoader(feed),
                          Entry("msg", activeDebateWs, Last(roomLog').agent,
                                Last(roomLog').round, Last(roomLog').content))
        /\ lastChunkAgent' = lastChunkAgent
        /\ (lastChunkBubble = 0) = (lastChunkBubble' = 0)
        /\ (lastChunkBubble < 0) = (lastChunkBubble' < 0)
        /\ lastChunkBubble > 0 => feed'[lastChunkBubble'] = feed[lastChunkBubble]
        /\ PointerText' = PointerText ]_vars

\* a chunk opened a bubble, a complete message of the same participant and
\* round followed, and the next chunk went into the bubble opened first
C27_Witness ==
  /\ Len(roomLog) = 3
  /\ roomLog[1].type = "agent_chunk"
  /\ roomLog[2].type = "agent_done"
  /\ roomLog[3].type = "agent_chunk"
  /\ Len(feed) = 2
  /\ feed[1].kind = "chunk"
  /\ feed[1].text = roomLog[1].content \o roomLog[3].content
  /\ feed[2].kind = "msg"
  /\ lastChunkBubble = 1

(***************************************************************************)
(* SpecInherit: debate_start frames without a category, next to the loop   *)
(* context as loop_status frames (push) and status polls (pull) set it.    *)
(***************************************************************************)
MaxInheritFrames == 2

TopicPitStop == <<"P", "i", "t", " ", "s", "t", "o", "p">>

TopicEra == <<"E", "r", "a">>

\* a topic longer than the prefix topicsMatch compares: TopicPrefixLen times
\* "a", then the tail
LongTopic(tail) == [i \in 1..TopicPrefixLen |-> "a"] \o tail

InheritLoopFrames ==
  { LoopFrame("debating", TRUE, TopicPitStop, "technical", 2),
    LoopFrame("debating", TRUE, LongTopic(<<"x">>), "breaking", 2),
    LoopFrame("cooldown", TRUE, <<>>, "", 2) }

InheritSnapshots ==
  { Snapshot(TRUE, TopicPit, "historical", 1),
    Snapshot(TRUE, <<"x">>, "technical", 1),
    Snapshot(FALSE, <<>>, "", 1) }

\* debate_start frames of room 1 without a category, the topic in content
InheritStartFrames ==
  { FeedFrame("debate_start", 1, 0, <<>>, <<>>, "", content, "", {}, 0, "", FALSE, 0) :
      content \in { <<StartedPrefix>> \o TopicPit,
                    <<StartedPrefix, " ", "P", "I", "T", " ", " ", "s", "t", "o", "p">>,
                    <<StartedPrefix>> \o TopicEra,
                    <<StartedPrefix, "x">>,
                    <<StartedPrefix>> \o LongTopic(<<"y">>),
                    <<>> } }

NextInherit ==
  \/ \E msg \in InheritLoopFrames \cup InheritStartFrames :
       feedSeen < MaxInheritFrames /\ FeedOnMessage(feedWs, msg, now)
  \/ \E t \in 1..MaxPollTimers : PollTick(t)
  \/ \E snap \in InheritSnapshots : PollReply(snap)
  \/ PollResponse

SpecInherit == InitFeed /\ [][NextInherit]_vars

\* a step that handles a loop_status push with phase Active and a topic
ActivePushStep ==
  /\ FeedStep
  /\ feedMsg'.type = "loop_status"
  /\ feedMsg'.status = "debating"
  /\ feedMsg'.topic # <<>>

\* a step in which a status pull applies a snapshot with phase Active
ActivePullStep ==
  /\ poll.phase = "replied"
  /\ poll'.phase = "idle"
  /\ poll'.outcome = "applied"
  /\ poll.resp.running
  /\ poll.resp.current_topic # <<>>

\* a step that handles a debate_start frame without a category
BareStartStep == FeedStep /\ feedMsg'.type = "debate_start" /\ feedMsg'.category = ""

MaxCacheFrames == 5

CacheRooms == 1..(FEED_MAX_ITEMS + 1)

CacheFrames ==
  { FeedFrame("debate_start", id, 0, <<>>, <<>>, "", <<StartedPrefix>> \o TopicWill,
              "", {}, 0, "", FALSE, 0) : id \in CacheRooms }
  \cup
  { FeedFrame("agent_done", id, 3, <<"A">>, <<>>, "", <<"c">>, "", {}, 0, "", FALSE, 0) :
      id \in Rooms }

NextCache ==
  \E msg \in CacheFrames :
    feedSeen < MaxCacheFrames /\ FeedOnMessage(feedWs, msg, now)

SpecCache == InitFeed /\ [][NextCache]_vars

\* the room ids the cache holds
MetaIds(meta) == { meta[i].id : i \in Indices(meta) }

\* the ids a step removes from the cache
Evicted == MetaIds(feedDebateMeta) \ MetaIds(feedDebateMeta')

\* C29: the metadata cache never holds more than FEED_MAX_ITEMS entries (200
\* in the source), nor two entries of one room; a step removes an entry only
\* when a new room enters the full cache, and the entry removed is that of the
\* room first seen earliest among the cached ones, whether or not it was
\* updated since.
C29_CacheEvictsFirstInserted ==
  /\ [](/\ Len(feedDebateMeta) <= FEED_MAX_ITEMS
        /\ Cardinality(MetaIds(feedDebateMeta)) = Len(feedDebateMeta))
  /\ [][ Evicted # {} =>
           /\ Len(feedDebateMeta) = FEED_MAX_ITEMS
           /\ MetaIds(feedDebateMeta') \ MetaIds(feedDebateMeta) = {feedMsg'.debate_id}
           /\ Evicted = {Head(metaOrder)} ]_vars

\* room 1 was cached first and updated by a conclusion after room 2 had been
\* cached; when the cache overflowed, room 1 was evicted and room 2 stayed
C29_Witness ==
  /\ Len(feedDebateMeta) = FEED_MAX_ITEMS
  /\ ~HasMeta(feedDebateMeta, 1)
  /\ HasMeta(feedDebateMeta, 2)
  /\ feedItems # <<>>
  /\ feedItems[1].type = "agent_done"
  /\ feedItems[1].debate_id = 1
  /\ \A i \in Indices(feedItems) : feedItems[i].debate_id # 2
  /\ Len(feedItems) = FEED_MAX_ITEMS

\* the cache entry of room id carries no less after the step than before it
KeepsInformation(id) ==
  LET old == getMeta(feedDebateMeta, id)
      new == getMeta(feedDebateMeta', id)
  IN /\ old.topic # <<>> => new.topic # <<>>
     /\ old.category # "default" => new.category # "default"

\* C30: a step that replaces the cache entry of a room never puts an empty
\* topic in the place of a non-empty one nor the category 'default' in the
\* place of another category.
C30_CacheNeverLessInformative ==
  [][ \A id \in MetaIds(feedDebateMeta) \cap MetaIds(feedDebateMeta') :
        KeepsInformation(id) ]_vars

(***************************************************************************)
(* Properties of room switching.                                           *)
(***************************************************************************)
OpenRoomSockets == { w \in Indices(roomWs) : roomWs[w].readyState = "OPEN" }

\* every loadDebate call has run to its end and began after the one before it
\* had opened its socket, the only open room socket is the current one, it
\* streams the room chosen last, and an earlier socket streamed another room:
\* the rooms were switched, one call at a time
SwitchedRooms ==
  /\ \A c \in Indices(loadCalls) : ~loadCalls[c].pending /\ loadCalls[c].seen = c - 1
  /\ activeDebateWs # 0
  /\ OpenRoomSockets = {activeDebateWs}
  /\ roomWs[activeDebateWs].room = activeDebateId
  /\ \E w \in 1..(activeDebateWs - 1) : roomWs[w].room # activeDebateId

\* a step that handles an agent_chunk frame of the new room's stream
NewRoomChunkStep ==
  /\ SwitchedRooms
  /\ Len(roomLog') = Len(roomLog) + 1
  /\ Last(roomLog').type = "agent_chunk"

\* C31: after a switch of rooms, the text of every agent_chunk of the new
\* room's stream ends up in an entry of the transcript: the bubble the chunk
\* was appended to is a child of the message feed and its text ends with the
\* chunk.
C31_NewRoomChunkInTranscript ==
  [][ NewRoomChunkStep =>
        /\ lastChunkBubble' > 0
        /\ LET text == feed'[lastChunkBubble'].text
               chunk == Last(roomLog').content
           IN /\ Len(text) >= Len(chunk)
              /\ SubSeq(text, Len(text) - Len(chunk) + 1, Len(text)) = chunk ]_vars

\* two loadDebate calls overlapped: a call began before the call before it
\* had opened its socket
LoadsOverlapped == \E c \in Indices(loadCalls) : loadCalls[c].seen < c - 1

\* C32: once every loadDebate call of an overlapping sequence has completed,
\* the live room connection streams the room of the most recent call, the
\* value of activeDebateId.
C32_ConnectionTargetsLastCall ==
  ( /\ LoadsOverlapped
    /\ \A c \in Indices(loadCalls) : ~loadCalls[c].pending )
  => /\ activeDebateWs # 0
     /\ roomWs[activeDebateWs].room = activeDebateId
     /\ activeDebateId = Last(loadCalls).id

(***************************************************************************)
(* Properties of the status-poll timer.                                    *)
(***************************************************************************)
ActivePollIntervals == { t \in Indices(pollIntervals) : pollIntervals[t] }

\* C33: at most one status-poll interval exists at any time, however often
\* the feed page is opened and polling restarted, and polling never stops:
\* exactly one interval created by startFeedStatusPolling is active, and it
\* is the one feedStatusPollTimer holds.
C33_OnePollInterval ==
  /\ Cardinality(ActivePollIntervals) = 1
  /\ ActivePollIntervals = {feedStatusPollTimer}

\* the feed page was opened twice after the start of polling at page load, a
\* room was opened in between, and earlier intervals were cleared
C33_Witness ==
  /\ Len(pollIntervals) >= 3
  /\ ~pollIntervals[1]
  /\ ~pollIntervals[2]
  /\ currentPage = "feed"
  /\ loadCalls # <<>>

=============================================================================
